---- MODULE Spec2Model ----
(***************************************************************************)
(* Verdict consensus pipeline of Dual Core Caleon: the two hemisphere      *)
(* harmonizers (Main_Core/left_hemisphere/gyro_harmonizer.py,              *)
(* Main_Core/right_hemisphere/gyro_harmonizer.py) and the final harmonizer *)
(* (Main_Core/Final_harmonizer.py) with its escalation to the Ollama       *)
(* engine (Main_Core/ollama_engine.py) and the Thinker reflection.         *)
(*                                                                         *)
(* One step of a harmonizer is one iteration of a loop of the code: a      *)
(* failed iteration of the `while True` draw loop, or a whole cycle (the   *)
(* draw that leaves the loop, vault.evaluate, vault.is_resolved and, in    *)
(* the final harmonizer, the Ollama branch).                               *)
(*                                                                         *)
(* The time oracle (Main_Core/ISS_Brainstem.py) and the task queue         *)
(* (Main_Core/Task_Orchestrator.py) are called by threads; a step of a     *)
(* thread is one access to shared state (taking the lock, reading or       *)
(* writing a field), so that calls of different threads interleave as the  *)
(* interpreter lets them.                                                  *)
(***************************************************************************)
EXTENDS Integers, Sequences, FiniteSets, Bags, TLC

VARIABLES
    vault,          \* the SeedVault handed to the constructors
    previous_sets,  \* self.previous_sets of each instance (a list, kept as a bag:
                    \* the code only tests membership and appends)
    pc,             \* where each instance's harmonize is: idle, primary, conflict
    cycle,          \* the loop variable (cycle / conflict) of the running loop
    retries,        \* failed iterations of the current `while True` draw loop
    evaluated,      \* every combo handed to vault.evaluate by each instance
    run,            \* the current harmonize call: evaluator calls, resolving attempt
    escal,          \* FinalHarmonizer: the Ollama branch of the current call
    query_log,      \* FinalHarmonizer: the circumstances of every Ollama query
    thinker_cycle,  \* Thinker.iss._cycle of the final harmonizer's Thinker
    ISS_cycle,      \* ISS._cycle of the module-level ISS singleton
    result,         \* what the last harmonize call of each instance returned
    calls,          \* harmonize calls started on each instance
    budget,         \* harmonize calls the caller will make on each instance
    iss,            \* the ISSBrainstem instances: _cycle, _lock, _last_ts
    th,             \* the threads calling the oracles and the task queue: the
                    \* call each one is in, its locals, what its last call gave
    issued,         \* every pulse issued in the process, in the order issued
    called_at,      \* per oracle, the time of its last detect_drift call
                    \* (of its construction before the first)
    queue,          \* TaskOrchestrator: the deque bound to self.queue
    items,          \* the task dicts of the callers
    offered,        \* the items queue() has been called with, in call order
    taken,          \* the items next() has returned, in return order
    seeds,          \* the seed profile VaultAPI.read_seed gives each mode
    synapses,       \* self.synapses of each resonator: its units, in bank order
    ref_count,      \* self.ref_count of each resonator
    reflections,    \* every VaultAPI.write_reflection made, in the order made
    stimuli,        \* the stimuli the caller will hand each resonator, in order
    fired,          \* the values the units fired in each resonator's last call
    ollama,         \* how the annotation went in each resonator's last call
    resonated,      \* what the last resonate call of each resonator returned
    request,        \* the message and the context a caller hands the consent gate
    consent,        \* the IntentConsent instance: escalations, last_check
    answers,        \* what the authorize calls have returned, in call order
    port            \* the gateway: its module globals and its last response

\* the state of the time oracles and of the task queue
brainstem_vars == <<iss, th, issued, called_at, queue, items, offered, taken>>

\* the state of the synaptic resonators and of the reflection vault
resonator_vars ==
    <<seeds, synapses, ref_count, reflections, stimuli, fired, ollama, resonated>>

\* the state of the consent gate and of the gateway
gateway_vars == <<request, consent, answers, port>>

vars == <<vault, previous_sets, pc, cycle, retries, evaluated, run, escal,
          query_log, thinker_cycle, ISS_cycle, result, calls, budget,
          brainstem_vars, resonator_vars, gateway_vars>>

\* the state of the harmonizers, which the calls on the oracles and on the
\* task queue leave alone
harmonizer_vars ==
    <<vault, previous_sets, pc, cycle, retries, evaluated, run, escal,
      query_log, thinker_cycle, ISS_cycle, result, calls, budget>>

-----------------------------------------------------------------------------
(* Bounds of the model *)

\* harmonize calls explored on a harmonizer running alone
MaxCalls == 2
\* harmonize calls explored on each of two harmonizers running side by side
MaxPairCalls == 1
\* harmonize calls explored on each of two harmonizers fed the same inputs
MaxTwinCalls == 1
\* failed draw-loop iterations explored per draw
MaxRetries == 1
\* the values time.time() takes: 0..MaxTime, in units of the clock
MaxTime == 2
\* pulse() calls explored per thread
MaxPulses == 2
\* detect_drift calls explored
MaxDriftCalls == 2
\* calls explored on the first thread when pulse() and detect_drift() run
\* side by side
MaxRaceCalls == 1
\* words of the intents handed to the consent gate
MaxWords == 2
\* authorize calls explored on one IntentConsent
MaxAuthorizeCalls == 2
\* think requests explored on the gateway
MaxRequests == 1
\* task queue calls explored on the first thread
MaxOps == 3
\* task queue calls explored on the second thread
MaxPeerOps == 1
\* bits of a float's significand (53 in the interpreter's binary64)
Precision == 7
\* synapses built per mode (780 in _build_synapses)
PerMode == 2
\* the stimuli explored are the floats nearest to k / StimulusSteps
StimulusSteps == 10
\* resonate calls explored on each resonator
MaxResonates == 2

-----------------------------------------------------------------------------
(* Program constants *)

Left_base_cycles == 5
Left_conflict_cycles == 5
Right_base_cycles == 5
Right_conflict_cycles == 5
Final_primary_cycles == 5
Final_conflict_cycles == 5
\* the size of random.sample(self.vault.logic_seeds, 5)
SampleSize == 5

Inst == {"left", "right", "final"}
Hemis == {"left", "right"}

\* base_cycles + conflict_cycles of a hemisphere harmonizer
total_cycles(h) ==
    IF h = "left" THEN Left_base_cycles + Left_conflict_cycles
    ELSE Right_base_cycles + Right_conflict_cycles

-----------------------------------------------------------------------------
(* The vault: philosophers, logic seeds, evaluate, is_resolved.  Seed and   *)
(* philosopher ids are numbers, ordered as the ids' strings are.            *)

Vault5 == [philosophers |-> 1..5, logic_seeds |-> 1..5]
Vault6 == [philosophers |-> 1..1, logic_seeds |-> 1..6]
Vault10 == [philosophers |-> 1..10, logic_seeds |-> 1..5]
Vaults == {Vault5, Vault6, Vault10}

\* what vault.evaluate can return
Verdicts == {"agree", "concur", "split"}
\* vault.evaluate raising
EvaluatorError == "EvaluatorError"
EvalOutcomes == Verdicts \cup {EvaluatorError}

\* vault.is_resolved(verdict)
is_resolved(verdict) == verdict \in {"agree", "concur"}

-----------------------------------------------------------------------------
(* The draw: random.choice, random.sample, sorted, tuple *)

Range(s) == {s[i] : i \in DOMAIN s}

\* random.sample(population, k): k distinct elements in any order
Sample(population, k) ==
    {s \in [1..k -> population] : \A i, j \in 1..k : i # j => s[i] # s[j]}

RECURSIVE Insert(_, _)
Insert(x, s) ==
    IF s = <<>> THEN <<x>>
    ELSE IF x <= Head(s) THEN <<x>> \o s
    ELSE <<Head(s)>> \o Insert(x, Tail(s))

RECURSIVE Sorted(_)
Sorted(s) == IF s = <<>> THEN <<>> ELSE Insert(Head(s), Sorted(Tail(s)))

\* the sample as drawn, left in its draw order
UnsortedTuple(s) == s

\* tuple(sorted(sample))
SortedTuple(s) == Sorted(s)

\* the combos one iteration of the draw loop can build
Draws(v) ==
    {<<philosopher, SortedTuple(s)>> :
        philosopher \in v.philosophers, s \in Sample(v.logic_seeds, SampleSize)}

DrawTable == [v \in Vaults |-> Draws(v)]

\* list.append(combo)
Append1(bag, combo) == bag (+) SetToBag({combo})

-----------------------------------------------------------------------------
(* Floats.  A float is kept as a whole number of quanta of 2^-FracBits whose *)
(* significand has at most Precision bits; every operation rounds its exact  *)
(* result to the nearest float, ties to the even significand.                *)

\* binary places below the unit
FracBits == Precision + 3

\* 1.0
One == 2^FracBits

\* n / d to the nearest whole number, ties to even
round_half_even(n, d) ==
    LET q == n \div d
        r == n % d
    IN IF 2 * r < d THEN q
       ELSE IF 2 * r > d THEN q + 1
       ELSE q + (q % 2)

\* the float nearest to n / d quanta (d > 0)
float(n, d) ==
    LET m == IF n < 0 THEN 0 - n ELSE n
        e == CHOOSE e \in 0..Precision :
                /\ m < 2^(Precision + e) * d
                /\ e = 0 \/ m >= 2^(Precision + e - 1) * d
        r == round_half_even(m, d * 2^e) * 2^e
    IN IF n < 0 THEN 0 - r ELSE r

\* a + b, a * b and a / b of two floats
float_add(a, b) == float(a + b, 1)
float_mul(a, b) == float(a * b, One)
float_truediv(a, b) == float(a * One, b)

\* random.random(): a float of [0.0, 1.0), here the least or the greatest
RandomDraws == {0, One - One \div 2^Precision}

\* random.uniform(a, b), which is a + (b - a) * random()
uniform(a, b, r) == float_add(a, float_mul(float_add(b, 0 - a), r))

-----------------------------------------------------------------------------
(* Synapse and PyramidNode *)

Modes == <<"intuition", "induction", "deduction">>

\* the units of a bank, numbered in the order _build_synapses appends them
Units == 1..(3 * PerMode)

\* the mode _build_synapses gives the unit it appends k-th
ModeOf(k) == Modes[((k - 1) % 3) + 1]

\* Synapse.__init__(mode, vault_seed) of unit k
Synapse(k) ==
    [mode |-> ModeOf(k), bias |-> seeds[ModeOf(k)].bias, mod |-> seeds[ModeOf(k)].mod]

\* Synapse.fire with the perturbation added to the stimulus, not scaled by it
fire_additive(syn, incoming, r) ==
    IF syn.mode = "intuition"
    THEN float_add(incoming, float_add(syn.bias, uniform(0 - syn.mod, syn.mod, r)))
    ELSE IF syn.mode = "induction"
    THEN float_add(incoming, uniform(float_mul(0 - syn.mod, 2 * One),
                                     float_mul(syn.mod, 2 * One), r))
    ELSE float_add(incoming, uniform(0 - syn.mod,
                                     float_truediv(syn.mod, 2 * One), r))

\* Synapse.fire(incoming), r being what random.random() gives this call
fire(syn, incoming, r) ==
    IF syn.mode = "intuition"
    THEN float_mul(incoming, float_add(float_add(One, syn.bias),
                                       uniform(0 - syn.mod, syn.mod, r)))
    ELSE IF syn.mode = "induction"
    THEN float_mul(incoming, float_add(One,
             uniform(float_mul(0 - syn.mod, 2 * One), float_mul(syn.mod, 2 * One), r)))
    ELSE float_mul(incoming, float_add(One,
             uniform(0 - syn.mod, float_truediv(syn.mod, 2 * One), r)))

\* sum(values): 0 + values[0] + values[1] + ..., rounded after each addition
RECURSIVE sum(_)
sum(values) ==
    IF values = <<>> THEN 0
    ELSE float_add(sum(SubSeq(values, 1, Len(values) - 1)), values[Len(values)])

\* PyramidNode.aggregate with the floor division sum(values) // len(values)
aggregate_floordiv(values) ==
    IF values = <<>> THEN One
    ELSE float((sum(values) \div (Len(values) * One)) * One, 1)

\* PyramidNode.aggregate(values)
aggregate(values) ==
    IF values = <<>> THEN One
    ELSE float_truediv(sum(values), Len(values) * One)

\* values[:b], the slice without its start
Slice_from_start(values, a, b) ==
    SubSeq(values, 1, IF b < Len(values) THEN b ELSE Len(values))

\* values[a:b] of a list (positions a+1 .. b, cut at the list's end)
Slice(values, a, b) ==
    SubSeq(values, a + 1, IF b < Len(values) THEN b ELSE Len(values))

\* _fan_pass with each mid-tier node fed a pair of the top nodes
_fan_pass_pairwise(values) ==
    LET out6 == aggregate(Slice(values, 0, PerMode))
        out5 == aggregate(Slice(values, PerMode, 2 * PerMode))
        out4 == aggregate(Slice(values, 2 * PerMode, 3 * PerMode))
        out3 == aggregate(<<out4, out5>>)
        out2 == aggregate(<<out5, out6>>)
        out1 == aggregate(<<out2, out3>>)
    IN <<out1, out2, out3, out4, out5, out6>>

\* SynapticResonator._fan_pass(values): the dict out, out[n] at index n
_fan_pass(values) ==
    LET out6 == aggregate(Slice(values, 0, PerMode))
        out5 == aggregate(Slice(values, PerMode, 2 * PerMode))
        out4 == aggregate(Slice(values, 2 * PerMode, 3 * PerMode))
        out3 == aggregate(<<out4, out5, out6>>)
        out2 == aggregate(<<out4, out5, out6>>)
        out1 == aggregate(<<out2, out3>>)
    IN <<out1, out2, out3, out4, out5, out6>>

\* the bank as the loop of _build_synapses leaves it, before the shuffle
Built == [k \in Units |-> k]

\* the bank with the units at positions i and j exchanged
Exchanged(bank, i, j) ==
    [k \in Units |-> IF k = i THEN bank[j] ELSE IF k = j THEN bank[i] ELSE bank[k]]

\* orders random.shuffle can leave the bank in: any order is possible, the
\* ones explored are the built order and those with two neighbours exchanged
Shuffles ==
    {Built} \cup {Exchanged(Built, i, i + 1) : i \in 1..(3 * PerMode - 1)}

\* what random.random() gives the calls of one resonate, in bank order: all
\* least, all greatest, or changing over once
RandomStreams ==
    {[k \in Units |-> IF k <= n THEN a ELSE b] :
        n \in 0..(3 * PerMode - 1), a \in RandomDraws, b \in RandomDraws}

\* the seed profiles explored: no perturbation; the default bias with a mod
\* of 1/8; a negative bias of 1/8 with that mod
SeedProfiles ==
    {[bias |-> 0, mod |-> 0],
     [bias |-> 0, mod |-> One \div 8],
     [bias |-> 0 - One \div 8, mod |-> One \div 8]}

\* seeds without perturbation in any mode
Unperturbed == [m \in {"intuition", "induction", "deduction"} |-> [bias |-> 0, mod |-> 0]]

\* the stimuli explored: float(k / StimulusSteps), as the gateway derives its
\* stimuli from float(hash % 1000) / 1000.0
Stimuli == {float(k * One, StimulusSteps) : k \in 0..StimulusSteps}

\* 0.5
Half == One \div 2

\* f"{n:06d}": the decimal digits of n, zero-padded on the left to 6 places
RECURSIVE zeros(_)
zeros(n) == IF n <= 0 THEN "" ELSE "0" \o zeros(n - 1)

format_06d(n) == zeros(6 - Len(ToString(n))) \o ToString(n)

\* no annotation: ollama_reasoning = None
None == [none |-> TRUE]

\* SynapticResonator.__init__ of both resonators: the seeds read, the banks
\* built and shuffled, ref_count = 0; and the stimuli their caller holds
ResonatorsInit(seedsets, banks, inputs) ==
    /\ seeds \in seedsets
    /\ synapses \in banks
    /\ stimuli \in inputs
    /\ ref_count = [h \in {"left", "right"} |-> 0]
    /\ reflections = <<>>
    /\ fired = [h \in {"left", "right"} |-> <<>>]
    /\ ollama = [h \in {"left", "right"} |-> "none"]
    /\ resonated = [h \in {"left", "right"} |-> [status |-> "none"]]

\* the resonators built, their caller holding no stimulus for them
ResonatorsIdle ==
    ResonatorsInit({Unperturbed}, {[h \in {"left", "right"} |-> Built]},
                   {[h \in {"left", "right"} |-> <<>>]})

-----------------------------------------------------------------------------
(* IntentConsent (Main_Core/Intent_Consent.py).  A str is kept as the tuple   *)
(* of its characters, so that lower, strip, split and `in` are computed on    *)
(* the text.                                                                  *)

ascii_uppercase ==
    <<"A", "B", "C", "D", "E", "F", "G", "H", "I", "J", "K", "L", "M", "N", "O", "P", "Q", "R", "S", "T", "U", "V", "W", "X", "Y", "Z">>
ascii_lowercase ==
    <<"a", "b", "c", "d", "e", "f", "g", "h", "i", "j", "k", "l", "m", "n", "o", "p", "q", "r", "s", "t", "u", "v", "w", "x", "y", "z">>

\* str.lower()
lower(s) ==
    [i \in DOMAIN s |->
        IF \E k \in DOMAIN ascii_uppercase : ascii_uppercase[k] = s[i]
        THEN ascii_lowercase[CHOOSE k \in DOMAIN ascii_uppercase :
                                 ascii_uppercase[k] = s[i]]
        ELSE s[i]]

RECURSIVE lstrip(_)
lstrip(s) == IF s # <<>> /\ Head(s) = " " THEN lstrip(Tail(s)) ELSE s

RECURSIVE rstrip(_)
rstrip(s) ==
    IF s # <<>> /\ s[Len(s)] = " " THEN rstrip(SubSeq(s, 1, Len(s) - 1)) ELSE s

\* str.strip()
strip(s) == rstrip(lstrip(s))

\* the characters of s before its first space (all of s if it has none)
partition(s) ==
    IF \E i \in DOMAIN s : s[i] = " "
    THEN SubSeq(s, 1, (CHOOSE i \in DOMAIN s :
                          s[i] = " " /\ \A j \in 1..(i - 1) : s[j] # " ") - 1)
    ELSE s

\* str.split(): the runs of characters between whitespace
RECURSIVE split(_)
split(s) ==
    LET r == lstrip(s)
        w == partition(r)
    IN IF r = <<>> THEN <<>>
       ELSE <<w>> \o split(SubSeq(r, Len(w) + 1, Len(r)))

\* `sub in s` of two strs
str_in(sub, s) ==
    \E i \in 0..(Len(s) - Len(sub)) : SubSeq(s, i + 1, i + Len(sub)) = sub

safe_bases ==
    {<<"a", "n", "a", "l", "y", "z", "e">>,
     <<"e", "x", "p", "l", "a", "i", "n">>,
     <<"c", "a", "l", "c", "u", "l", "a", "t", "e">>,
     <<"t", "h", "i", "n", "k">>,
     <<"r", "e", "a", "s", "o", "n">>,
     <<"s", "u", "m", "m", "a", "r", "i", "z", "e">>,
     <<"t", "r", "a", "n", "s", "l", "a", "t", "e">>,
     <<"r", "e", "f", "l", "e", "c", "t">>,
     <<"i", "n", "f", "e", "r">>,
     <<"p", "r", "o", "j", "e", "c", "t">>,
     <<"s", "e", "a", "r", "c", "h">>,
     <<"l", "o", "o", "k", "u", "p">>,
     <<"e", "x", "p", "l", "o", "r", "e">>,
     <<"c", "o", "n", "s", "i", "d", "e", "r">>}

harmful_verbs ==
    {<<"d", "e", "l", "e", "t", "e">>,
     <<"d", "e", "s", "t", "r", "o", "y">>,
     <<"e", "r", "a", "s", "e">>,
     <<"w", "i", "p", "e">>,
     <<"k", "i", "l", "l">>,
     <<"s", "h", "u", "t", "d", "o", "w", "n">>,
     <<"d", "i", "s", "a", "b", "l", "e">>,
     <<"b", "r", "e", "a", "k">>,
     <<"f", "o", "r", "m", "a", "t">>,
     <<"o", "v", "e", "r", "w", "r", "i", "t", "e">>}

protected_terms ==
    {<<"s", "y", "s", "t", "e", "m", " ", "f", "i", "l", "e", "s">>,
     <<"k", "e", "r", "n", "e", "l">>,
     <<"c", "o", "r", "e">>,
     <<"o", "s">>,
     <<"v", "a", "u", "l", "t">>,
     <<"m", "e", "m", "o", "r", "y">>,
     <<"n", "e", "t", "w", "o", "r", "k">>,
     <<"r", "e", "g", "i", "s", "t", "r", "y">>}

internal_terms ==
    {<<"d", "i", "a", "g", "n", "o", "s", "t", "i", "c">>,
     <<"h", "e", "a", "l", "t", "h">>,
     <<"s", "y", "s", "t", "e", "m">>}

\* iss.stardate(), a text derived from the clock
stardate == "SD"

\* IntentConsent.__init__
IntentConsent == [escalations |-> <<>>, last_check |-> None]

\* authorize(intent, context): what it returns, and the reason it escalates
\* with ("" when it does not escalate)
authorize(intent, context) ==
    LET intent_l == strip(lower(intent))
        ctx == IF context = None THEN <<>> ELSE context
        words == split(intent_l)
        base == partition(intent_l)
        internal == \E term \in internal_terms : str_in(term, intent_l)
    IN IF "source" \in DOMAIN ctx /\ ctx["source"] = "SYSTEM" /\ internal
       THEN [ret |-> TRUE, reason |-> ""]
       ELSE IF \E v \in harmful_verbs : \E k \in DOMAIN words : words[k] = v
       THEN [ret |-> FALSE, reason |-> "Harmful intent: "]
       ELSE IF \E term \in protected_terms : str_in(term, intent_l)
       THEN [ret |-> FALSE, reason |-> "Unauthorized protected access: "]
       ELSE IF internal
       THEN [ret |-> FALSE, reason |-> "Internal function without SYSTEM context: "]
       ELSE IF base \in safe_bases
       THEN [ret |-> TRUE, reason |-> ""]
       ELSE IF str_in(<<"s", "e", "a", "r", "c", "h">>, intent_l) /\ str_in(<<"i", "n", "f", "o", "r", "m", "a", "t", "i", "o", "n">>, intent_l)
       THEN [ret |-> TRUE, reason |-> ""]
       ELSE [ret |-> TRUE, reason |-> "Unknown intent allowed: "]

\* _escalate(reason), the reason being the text followed by the intent
_escalate(escalations, text, intent) ==
    Append(escalations, [reason |-> <<text, intent>>, timestamp |-> stardate])

\* the words the callers' intents are made of
Vocabulary ==
    {<<>>,
     <<"d", "e", "l", "e", "t", "e">>,
     <<"E", "r", "a", "s", "e">>,
     <<"u", "n", "d", "e", "l", "e", "t", "e">>,
     <<"c", "o", "s", "t">>,
     <<"s", "y", "s", "t", "e", "m">>,
     <<"f", "i", "l", "e", "s">>,
     <<"a", "n", "a", "l", "y", "z", "e">>,
     <<"d", "a", "t", "a">>}

RECURSIVE join(_)
\* " ".join(ws)
join(ws) == IF Len(ws) = 1 THEN ws[1] ELSE ws[1] \o <<" ">> \o join(Tail(ws))

\* the intents of up to MaxWords words
Intents == {join(ws) : ws \in UNION {[1..n -> Vocabulary] : n \in 1..MaxWords}}

\* the contexts a caller passes: none, the trusted one, that of another
\* source, and the one think builds
Contexts ==
    {None, [source |-> "SYSTEM"], [source |-> "USER"], [priority |-> "normal"]}

\* the gateway module loaded, its startup event not yet run: the globals are
\* None
PortDown ==
    [pc |-> "down", left_hemisphere |-> "None", right_hemisphere |-> "None",
     final_harmonizer |-> "None", task_orchestrator |-> "None",
     intent_consent |-> "None", served |-> 0, response |-> None]

\* consent.authorize(intent, context) by the holder of the request
IntentConsent_authorize ==
    /\ Len(answers) < MaxAuthorizeCalls
    /\ \E d \in {authorize(request.intent, request.context)} :
        /\ consent' = [last_check |-> stardate,
                       escalations |->
                           IF d.reason = "" THEN consent.escalations
                           ELSE _escalate(consent.escalations, d.reason,
                                          request.intent)]
        /\ answers' = Append(answers, d.ret)
    /\ UNCHANGED <<request, port, harmonizer_vars, brainstem_vars, resonator_vars>>

\* FinalHarmonizer.__init__(self, vault) called with the arguments args
FinalHarmonizer_init(args) ==
    IF Len(args) = 1 THEN "FinalHarmonizer" ELSE "TypeError"

\* startup_event: the globals are assigned in turn until a constructor
\* raises; the exception is logged and raised again, and the globals after
\* it stay None
startup_event ==
    /\ port.pc = "down"
    /\ \E built \in {FinalHarmonizer_init(<<>>)} :
       port' = [port EXCEPT
           !.left_hemisphere = "SynapticResonator",
           !.right_hemisphere = "SynapticResonator",
           !.final_harmonizer = IF built = "TypeError" THEN "None" ELSE built,
           !.task_orchestrator =
               IF built = "TypeError" THEN "None" ELSE "TaskOrchestrator",
           !.intent_consent =
               IF built = "TypeError" THEN "None" ELSE "IntentConsent",
           !.pc = IF built = "TypeError" THEN "startup_failed" ELSE "up"]
    /\ UNCHANGED <<request, consent, answers,
                   harmonizer_vars, brainstem_vars, resonator_vars>>

\* what `except Exception` of think makes of an exception
HTTP_500 == [status_code |-> 500, detail |-> "Cognitive processing failed"]

\* the response to a denied message
Denied ==
    [final_verdict |-> "DENIED",
     reasoning_chain |-> [authorization |-> "Intent denied by consent layer"],
     confidence |-> 0]

\* think(request), the startup event having run or not: ISS.pulse(), then
\* intent_consent.authorize(request.message, {"priority": request.priority}),
\* an attribute lookup on the global.  On None the lookup raises
\* AttributeError and the handler answers HTTP 500; the steps after the
\* consent check (lines 278-351) run on an IntentConsent only.
think ==
    /\ port.served < MaxRequests
    /\ iss' = [iss EXCEPT !["ISS"]._cycle = @ + 1]
    /\ issued' = Append(issued, [o |-> "ISS", cycle |-> iss["ISS"]._cycle + 1,
                                 by |-> "think"])
    /\ IF port.intent_consent = "None"
       THEN /\ port' = [port EXCEPT !.served = @ + 1, !.response = HTTP_500]
            /\ UNCHANGED <<consent, answers>>
       ELSE \E d \in {authorize(request.intent, request.context)} :
            /\ consent' = [last_check |-> stardate,
                           escalations |->
                               IF d.reason = "" THEN consent.escalations
                               ELSE _escalate(consent.escalations, d.reason,
                                              request.intent)]
            /\ answers' = Append(answers, d.ret)
            /\ port' = [port EXCEPT
                   !.served = @ + 1,
                   !.pc = IF d.ret THEN "left" ELSE @,
                   !.response = IF d.ret THEN None ELSE Denied]
    /\ UNCHANGED <<request, th, called_at, queue, items, offered, taken,
                   harmonizer_vars, resonator_vars>>

\* a caller holding one of `requests`, a consent gate just built, the gateway
\* not started
GatewayInit(requests) ==
    /\ request \in requests
    /\ consent = IntentConsent
    /\ answers = <<>>
    /\ port = PortDown

\* no caller of the consent gate or of the gateway
GatewayIdle == GatewayInit({[intent |-> <<>>, context |-> None]})

-----------------------------------------------------------------------------
(* Initial state: the constructors have run, no harmonize call yet *)

NoResult == [status |-> "none"]
NewRun == [evals |-> 0, resolvedAt |-> 0, verdict |-> "none"]
NoAnswer == [success |-> FALSE]
NoEscal == [healthy |-> FALSE, outcome |-> "none", rechecked |-> FALSE,
            answer |-> NoAnswer]

\* the threads of the process
Threads == {"t1", "t2"}

\* the ISSBrainstem instances: the module's singleton ISS, Thinker.iss and
\* TaskOrchestrator.iss
Oracles == {"ISS", "Thinker", "TaskOrchestrator"}

\* what time.time() can return
Times == 0..MaxTime

NoRet == [kind |-> "none"]

\* a thread that will make n calls and has made none
Frame(n) ==
    [pc |-> "idle", op |-> "none", o |-> "ISS", item |-> "none", reg |-> 0,
     ret |-> NoRet, todo |-> n, trace |-> <<>>]

\* ISSBrainstem.__init__ at time ts
ISSBrainstem(ts) == [_cycle |-> 0, _lock |-> "free", _last_ts |-> ts]

\* the task dict a caller builds: its payload
task_item(t) == [k \in {"data"} |-> t]

\* ISSBrainstem.__init__ of every oracle and TaskOrchestrator.__init__; the
\* threads get one of `quotas`, the oracles are built at one of `stamps`, and
\* the callers hold one of `dicts`
BrainstemInitWith(quotas, stamps, dicts) ==
    /\ \E q \in quotas : th = [t \in Threads |-> Frame(q[t])]
    /\ \E ts \in stamps :
        /\ iss = [o \in Oracles |-> ISSBrainstem(ts[o])]
        /\ called_at = ts
    /\ issued = <<>>
    /\ queue = <<>>
    /\ items \in dicts
    /\ offered = <<>>
    /\ taken = <<>>

\* the same, every caller holding its task dict
BrainstemInit(quotas, stamps) ==
    BrainstemInitWith(quotas, stamps, {[t \in Threads |-> task_item(t)]})

\* no thread calls anything
NoQuota == [t \in Threads |-> 0]

\* every oracle built at time 0
AtZero == [o \in Oracles |-> 0]

\* the harmonizers after construction
HarmonizersInit(vs, budgets) ==
    /\ vault \in vs
    /\ budget \in budgets
    /\ previous_sets = [h \in Inst |-> EmptyBag]
    /\ pc = [h \in Inst |-> "idle"]
    /\ cycle = [h \in Inst |-> 0]
    /\ retries = [h \in Inst |-> 0]
    /\ evaluated = [h \in Inst |-> EmptyBag]
    /\ run = [h \in Inst |-> NewRun]
    /\ escal = NoEscal
    /\ query_log = {}
    /\ thinker_cycle = 0
    /\ ISS_cycle = 0
    /\ result = [h \in Inst |-> NoResult]
    /\ calls = [h \in Inst |-> 0]

InitWith(vs, budgets) ==
    /\ HarmonizersInit(vs, budgets)
    /\ BrainstemInit({NoQuota}, {AtZero})
    /\ ResonatorsIdle
    /\ GatewayIdle

\* the call's record after vault.evaluate has answered `out`: one more
\* evaluator call, its verdict, and the first attempt is_resolved accepts
RunAfter(h, out) ==
    [run EXCEPT ![h] =
        [evals |-> @.evals + 1,
         resolvedAt |-> IF @.resolvedAt = 0 /\ out \in Verdicts /\ is_resolved(out)
                        THEN @.evals + 1 ELSE @.resolvedAt,
         verdict |-> out]]

\* the exception of a raising evaluator leaves harmonize
Raised == [status |-> "raised", exception |-> EvaluatorError]

-----------------------------------------------------------------------------
(* HarmonizerLeft *)

\* harmonize starting from an empty history
Left_call_resetting ==
    /\ pc["left"] = "idle"
    /\ calls["left"] < budget["left"]
    /\ calls' = [calls EXCEPT !["left"] = @ + 1]
    /\ pc' = [pc EXCEPT !["left"] = "primary"]
    /\ cycle' = [cycle EXCEPT !["left"] = 1]
    /\ retries' = [retries EXCEPT !["left"] = 0]
    /\ run' = [run EXCEPT !["left"] = NewRun]
    /\ result' = [result EXCEPT !["left"] = NoResult]
    /\ previous_sets' = [previous_sets EXCEPT !["left"] = EmptyBag]
    /\ UNCHANGED <<vault, evaluated, escal, query_log, thinker_cycle, ISS_cycle,
                   budget, brainstem_vars, resonator_vars, gateway_vars>>

\* the caller invokes harmonize(distilled)
Left_call ==
    /\ pc["left"] = "idle"
    /\ calls["left"] < budget["left"]
    /\ calls' = [calls EXCEPT !["left"] = @ + 1]
    /\ pc' = [pc EXCEPT !["left"] = "primary"]
    /\ cycle' = [cycle EXCEPT !["left"] = 1]
    /\ retries' = [retries EXCEPT !["left"] = 0]
    /\ run' = [run EXCEPT !["left"] = NewRun]
    /\ result' = [result EXCEPT !["left"] = NoResult]
    /\ UNCHANGED <<vault, previous_sets, evaluated, escal, query_log, thinker_cycle, ISS_cycle,
                   budget, brainstem_vars, resonator_vars, gateway_vars>>

\* `if combo not in self.previous_sets`
Left_is_new(combo) == ~BagIn(combo, previous_sets["left"])

\* self.previous_sets.append(combo), shared by every instance
Shared_remember(combo) == [h \in Inst |-> Append1(previous_sets[h], combo)]

\* self.previous_sets.append(combo)
Left_remember(combo) == [previous_sets EXCEPT !["left"] = Append1(@, combo)]

\* one iteration of `while True` that draws a combo already used
Left_pick_retry ==
    /\ pc["left"] \in {"primary", "conflict"}
    /\ retries["left"] < MaxRetries
    /\ \E combo \in DrawTable[vault] : ~Left_is_new(combo)
    /\ retries' = [retries EXCEPT !["left"] = @ + 1]
    /\ UNCHANGED <<vault, previous_sets, pc, cycle, evaluated, run, escal,
                   query_log, thinker_cycle, ISS_cycle, result, calls,
                   budget, brainstem_vars, resonator_vars, gateway_vars>>

Left_resolved_off(verdict, cycles) ==
    [source |-> "Left_Hemisphere", verdict |-> verdict,
     cycles |-> cycles + 1, status |-> "resolved"]

Left_resolved(verdict, cycles) ==
    [source |-> "Left_Hemisphere", verdict |-> verdict,
     cycles |-> cycles, status |-> "resolved"]

Left_unresolved_short ==
    [source |-> "Left_Hemisphere", verdict |-> "UNRESOLVED",
     cycles |-> Left_base_cycles, status |-> "unresolved"]

Left_unresolved ==
    [source |-> "Left_Hemisphere", verdict |-> "UNRESOLVED",
     cycles |-> Left_base_cycles + Left_conflict_cycles, status |-> "unresolved"]

\* harmonize leaves with `value` (a returned dict or a raised exception)
Left_leave(value) ==
    /\ pc' = [pc EXCEPT !["left"] = "idle"]
    /\ cycle' = [cycle EXCEPT !["left"] = 0]
    /\ result' = [result EXCEPT !["left"] = value]

\* the draw returning its combo without the append to the history
Left_draw_and_evaluate_unrecorded(combo) ==
    /\ Left_is_new(combo)
    /\ previous_sets' = previous_sets
    /\ evaluated' = [evaluated EXCEPT !["left"] = Append1(@, combo)]
    /\ retries' = [retries EXCEPT !["left"] = 0]

\* the draw that leaves the loop, then vault.evaluate
Left_draw_and_evaluate(combo) ==
    /\ Left_is_new(combo)
    /\ previous_sets' = Left_remember(combo)
    /\ evaluated' = [evaluated EXCEPT !["left"] = Append1(@, combo)]
    /\ retries' = [retries EXCEPT !["left"] = 0]

\* one iteration of `for cycle in range(1, self.base_cycles + 1)`
Left_primary_cycle ==
    /\ pc["left"] = "primary"
    /\ \E combo \in DrawTable[vault] : Left_draw_and_evaluate(combo)
    /\ \E out \in EvalOutcomes :
        IF out = EvaluatorError
        THEN /\ run' = RunAfter("left", out)
             /\ Left_leave(Raised)
        ELSE IF is_resolved(out)
        THEN /\ run' = RunAfter("left", out)
             /\ Left_leave(Left_resolved(out, cycle["left"]))
        ELSE /\ run' = RunAfter("left", out)
             /\ result' = result
             /\ IF cycle["left"] < Left_base_cycles
                THEN /\ cycle' = [cycle EXCEPT !["left"] = @ + 1]
                     /\ pc' = pc
                ELSE /\ cycle' = [cycle EXCEPT !["left"] = 1]
                     /\ pc' = [pc EXCEPT !["left"] = "conflict"]
    /\ UNCHANGED <<vault, escal, query_log, thinker_cycle, ISS_cycle, calls,
                   budget, brainstem_vars, resonator_vars, gateway_vars>>

\* one iteration of `for conflict in range(1, self.conflict_cycles + 1)`
Left_conflict_cycle ==
    /\ pc["left"] = "conflict"
    /\ \E combo \in DrawTable[vault] : Left_draw_and_evaluate(combo)
    /\ \E out \in EvalOutcomes :
        IF out = EvaluatorError
        THEN /\ run' = RunAfter("left", out)
             /\ Left_leave(Raised)
        ELSE IF is_resolved(out)
        THEN /\ run' = RunAfter("left", out)
             /\ Left_leave(Left_resolved(out, Left_base_cycles + cycle["left"]))
        ELSE /\ run' = RunAfter("left", out)
             /\ IF cycle["left"] < Left_conflict_cycles
                THEN /\ cycle' = [cycle EXCEPT !["left"] = @ + 1]
                     /\ pc' = pc
                     /\ result' = result
                ELSE Left_leave(Left_unresolved)
    /\ UNCHANGED <<vault, escal, query_log, thinker_cycle, ISS_cycle, calls,
                   budget, brainstem_vars, resonator_vars, gateway_vars>>

Left_step ==
    \/ Left_call
    \/ Left_pick_retry
    \/ Left_primary_cycle
    \/ Left_conflict_cycle

-----------------------------------------------------------------------------
(* HarmonizerRight *)

\* the caller invokes harmonize(distilled)
Right_call ==
    /\ pc["right"] = "idle"
    /\ calls["right"] < budget["right"]
    /\ calls' = [calls EXCEPT !["right"] = @ + 1]
    /\ pc' = [pc EXCEPT !["right"] = "primary"]
    /\ cycle' = [cycle EXCEPT !["right"] = 1]
    /\ retries' = [retries EXCEPT !["right"] = 0]
    /\ run' = [run EXCEPT !["right"] = NewRun]
    /\ result' = [result EXCEPT !["right"] = NoResult]
    /\ UNCHANGED <<vault, previous_sets, evaluated, escal, query_log, thinker_cycle, ISS_cycle,
                   budget, brainstem_vars, resonator_vars, gateway_vars>>

\* `if combo not in self.previous_sets`
Right_is_new(combo) == ~BagIn(combo, previous_sets["right"])

\* self.previous_sets.append(combo)
Right_remember(combo) == [previous_sets EXCEPT !["right"] = Append1(@, combo)]

\* one iteration of `while True` that draws a combo already used
Right_pick_retry ==
    /\ pc["right"] \in {"primary", "conflict"}
    /\ retries["right"] < MaxRetries
    /\ \E combo \in DrawTable[vault] : ~Right_is_new(combo)
    /\ retries' = [retries EXCEPT !["right"] = @ + 1]
    /\ UNCHANGED <<vault, previous_sets, pc, cycle, evaluated, run, escal,
                   query_log, thinker_cycle, ISS_cycle, result, calls,
                   budget, brainstem_vars, resonator_vars, gateway_vars>>

\* the resolved result counting one cycle more than were run
Right_resolved_late(verdict, cycles) ==
    [source |-> "Right_Hemisphere", verdict |-> verdict,
     cycles |-> cycles + 1, status |-> "resolved"]

Right_resolved(verdict, cycles) ==
    [source |-> "Right_Hemisphere", verdict |-> verdict,
     cycles |-> cycles, status |-> "resolved"]

Right_unresolved ==
    [source |-> "Right_Hemisphere", verdict |-> "UNRESOLVED",
     cycles |-> Right_base_cycles + Right_conflict_cycles, status |-> "unresolved"]

\* harmonize leaves with `value` (a returned dict or a raised exception)
Right_leave(value) ==
    /\ pc' = [pc EXCEPT !["right"] = "idle"]
    /\ cycle' = [cycle EXCEPT !["right"] = 0]
    /\ result' = [result EXCEPT !["right"] = value]

\* the draw that leaves the loop, then vault.evaluate
Right_draw_and_evaluate(combo) ==
    /\ Right_is_new(combo)
    /\ previous_sets' = Right_remember(combo)
    /\ evaluated' = [evaluated EXCEPT !["right"] = Append1(@, combo)]
    /\ retries' = [retries EXCEPT !["right"] = 0]

\* one iteration of `for cycle in range(1, self.base_cycles + 1)`
Right_primary_cycle ==
    /\ pc["right"] = "primary"
    /\ \E combo \in DrawTable[vault] : Right_draw_and_evaluate(combo)
    /\ \E out \in EvalOutcomes :
        IF out = EvaluatorError
        THEN /\ run' = RunAfter("right", out)
             /\ Right_leave(Raised)
        ELSE IF is_resolved(out)
        THEN /\ run' = RunAfter("right", out)
             /\ Right_leave(Right_resolved(out, cycle["right"]))
        ELSE /\ run' = RunAfter("right", out)
             /\ result' = result
             /\ IF cycle["right"] < Right_base_cycles
                THEN /\ cycle' = [cycle EXCEPT !["right"] = @ + 1]
                     /\ pc' = pc
                ELSE /\ cycle' = [cycle EXCEPT !["right"] = 1]
                     /\ pc' = [pc EXCEPT !["right"] = "conflict"]
    /\ UNCHANGED <<vault, escal, query_log, thinker_cycle, ISS_cycle, calls,
                   budget, brainstem_vars, resonator_vars, gateway_vars>>

\* one iteration of `for conflict in range(1, self.conflict_cycles + 1)`
Right_conflict_cycle ==
    /\ pc["right"] = "conflict"
    /\ \E combo \in DrawTable[vault] : Right_draw_and_evaluate(combo)
    /\ \E out \in EvalOutcomes :
        IF out = EvaluatorError
        THEN /\ run' = RunAfter("right", out)
             /\ Right_leave(Raised)
        ELSE IF is_resolved(out)
        THEN /\ run' = RunAfter("right", out)
             /\ Right_leave(Right_resolved(out, Right_base_cycles + cycle["right"]))
        ELSE /\ run' = RunAfter("right", out)
             /\ IF cycle["right"] < Right_conflict_cycles
                THEN /\ cycle' = [cycle EXCEPT !["right"] = @ + 1]
                     /\ pc' = pc
                     /\ result' = result
                ELSE Right_leave(Right_unresolved)
    /\ UNCHANGED <<vault, escal, query_log, thinker_cycle, ISS_cycle, calls,
                   budget, brainstem_vars, resonator_vars, gateway_vars>>

Right_step ==
    \/ Right_call
    \/ Right_pick_retry
    \/ Right_primary_cycle
    \/ Right_conflict_cycle

-----------------------------------------------------------------------------
(* OllamaEngine and Thinker, as FinalHarmonizer uses them *)

\* what the Ollama server can answer in data["response"] and data["model"]
Responses == {"bridge", "synthesis"}
MODEL_NAME == "phi3:mini"
Models == {MODEL_NAME, "phi3:medium"}

\* how the POST of OllamaEngine.query can end
NetOutcomes == {"http_200", "http_error", "timeout", "client_error"}

\* OllamaEngine.query: the dict it returns (every exception is caught inside)
query(net, response, model) ==
    IF net = "http_200"
    THEN [response |-> response, model |-> model, success |-> TRUE]
    ELSE IF net = "http_error"
    THEN [response |-> "", success |-> FALSE, error |-> "HTTP"]
    ELSE IF net = "timeout"
    THEN [response |-> "", success |-> FALSE, error |-> "Query timeout"]
    ELSE [response |-> "", success |-> FALSE, error |-> "Exception"]

\* a reflection whose confidence is lower for a result that is not resolved
reflect_graded(merged_verdict, pulse_cycle) ==
    [original |-> merged_verdict, reflection |-> "Meta-analysis applied",
     confidence |-> IF merged_verdict.status = "resolved" THEN 95 ELSE 50,
     pulse |-> pulse_cycle, stardate |-> "SD"]

\* Thinker.reflect(merged_verdict), with the pulse's cycle component; the
\* confidence 0.95 is kept in hundredths
reflect(merged_verdict, pulse_cycle) ==
    [original |-> merged_verdict, reflection |-> "Meta-analysis applied",
     confidence |-> 95, pulse |-> pulse_cycle, stardate |-> "SD"]

-----------------------------------------------------------------------------
(* FinalHarmonizer *)

\* the caller invokes harmonize(left_verdict, right_verdict, distilled); the
\* three inputs only travel into `fused` and the prompt
Final_call ==
    /\ pc["final"] = "idle"
    /\ calls["final"] < budget["final"]
    /\ calls' = [calls EXCEPT !["final"] = @ + 1]
    /\ pc' = [pc EXCEPT !["final"] = "primary"]
    /\ cycle' = [cycle EXCEPT !["final"] = 1]
    /\ retries' = [retries EXCEPT !["final"] = 0]
    /\ run' = [run EXCEPT !["final"] = NewRun]
    /\ escal' = NoEscal
    /\ result' = [result EXCEPT !["final"] = NoResult]
    /\ UNCHANGED <<vault, previous_sets, evaluated, query_log, thinker_cycle,
                   ISS_cycle, budget, brainstem_vars, resonator_vars, gateway_vars>>

\* `if combo not in self.previous_sets`
Final_is_new(combo) == ~BagIn(combo, previous_sets["final"])

\* self.previous_sets.append(combo)
Final_remember(combo) == [previous_sets EXCEPT !["final"] = Append1(@, combo)]

\* one iteration of `while True` that draws a combo already used
Final_pick_retry ==
    /\ pc["final"] \in {"primary", "conflict"}
    /\ retries["final"] < MaxRetries
    /\ \E combo \in DrawTable[vault] : ~Final_is_new(combo)
    /\ retries' = [retries EXCEPT !["final"] = @ + 1]
    /\ UNCHANGED <<vault, previous_sets, pc, cycle, evaluated, run, escal,
                   query_log, thinker_cycle, ISS_cycle, result, calls,
                   budget, brainstem_vars, resonator_vars, gateway_vars>>

\* the resolved result counting one cycle more than were run
Final_resolved_late(verdict, cycles) ==
    [source |-> "Final_Core", verdict |-> verdict,
     cycles |-> cycles + 1, status |-> "resolved"]

Final_resolved(verdict, cycles) ==
    [source |-> "Final_Core", verdict |-> verdict,
     cycles |-> cycles, status |-> "resolved"]

Final_escalated_local(ollama_result, local_verdict, cycles) ==
    [source |-> "Final_Core_Ollama", verdict |-> local_verdict,
     cycles |-> cycles, status |-> "resolved_ollama",
     ollama_model |-> ollama_result.model]

Final_escalated(ollama_result, local_verdict, cycles) ==
    [source |-> "Final_Core_Ollama", verdict |-> ollama_result.response,
     cycles |-> cycles, status |-> "resolved_ollama",
     ollama_model |-> ollama_result.model]

Final_unresolved ==
    [source |-> "Final_Core", verdict |-> "UNRESOLVED_RETURN_TO_RESONATOR",
     status |-> "unresolved"]

\* harmonize raises `value`
Final_raise(value) ==
    /\ pc' = [pc EXCEPT !["final"] = "idle"]
    /\ cycle' = [cycle EXCEPT !["final"] = 0]
    /\ result' = [result EXCEPT !["final"] = value]
    /\ thinker_cycle' = thinker_cycle

\* `return result`, the dict handed back as it is
Final_return_raw(value) ==
    /\ pc' = [pc EXCEPT !["final"] = "idle"]
    /\ cycle' = [cycle EXCEPT !["final"] = 0]
    /\ thinker_cycle' = thinker_cycle
    /\ result' = [result EXCEPT !["final"] = value]

\* `return self.thinker.reflect(result)`
Final_return(value) ==
    /\ pc' = [pc EXCEPT !["final"] = "idle"]
    /\ cycle' = [cycle EXCEPT !["final"] = 0]
    /\ thinker_cycle' = thinker_cycle + 1
    /\ result' = [result EXCEPT !["final"] = reflect(value, thinker_cycle + 1)]

\* the draw that leaves the loop, then vault.evaluate
Final_draw_and_evaluate(combo) ==
    /\ Final_is_new(combo)
    /\ previous_sets' = Final_remember(combo)
    /\ evaluated' = [evaluated EXCEPT !["final"] = Append1(@, combo)]
    /\ retries' = [retries EXCEPT !["final"] = 0]

\* one iteration of `for cycle in range(1, self.primary_cycles + 1)`
Final_primary_cycle ==
    /\ pc["final"] = "primary"
    /\ \E combo \in DrawTable[vault] : Final_draw_and_evaluate(combo)
    /\ \E out \in EvalOutcomes :
        IF out = EvaluatorError
        THEN /\ run' = RunAfter("final", out)
             /\ Final_raise(Raised)
        ELSE IF is_resolved(out)
        THEN /\ run' = RunAfter("final", out)
             /\ Final_return(Final_resolved(out, cycle["final"]))
        ELSE /\ run' = RunAfter("final", out)
             /\ result' = result
             /\ thinker_cycle' = thinker_cycle
             /\ IF cycle["final"] < Final_primary_cycles
                THEN /\ cycle' = [cycle EXCEPT !["final"] = @ + 1]
                     /\ pc' = pc
                ELSE /\ cycle' = [cycle EXCEPT !["final"] = 1]
                     /\ pc' = [pc EXCEPT !["final"] = "conflict"]
    /\ UNCHANGED <<vault, escal, query_log, ISS_cycle, calls, budget, brainstem_vars, resonator_vars, gateway_vars>>

\* `if not self.vault.is_resolved(verdict) and self.ollama.health_check()`,
\* healthy being what health_check returns when it is called
Final_escalates_unchecked(verdict, healthy) == ~is_resolved(verdict)

Final_escalates(verdict, healthy) == ~is_resolved(verdict) /\ healthy

\* the local check after the Ollama branch, `if self.vault.is_resolved(verdict)`,
\* and the end of the conflict loop
Final_local_check(verdict, esc) ==
    /\ escal' = [esc EXCEPT !.rechecked = TRUE]
    /\ run' = RunAfter("final", verdict)
    /\ IF is_resolved(verdict)
       THEN Final_return(Final_resolved(verdict, Final_primary_cycles + cycle["final"]))
       ELSE IF cycle["final"] < Final_conflict_cycles
       THEN /\ cycle' = [cycle EXCEPT !["final"] = @ + 1]
            /\ pc' = pc
            /\ result' = result
            /\ thinker_cycle' = thinker_cycle
       ELSE Final_return(Final_unresolved)

\* what health_check() can answer; it is not called for a resolved verdict
\* (`and` evaluates its right operand only when the left one is true)
HealthAnswers(verdict) == IF is_resolved(verdict) THEN {FALSE} ELSE BOOLEAN

\* a failed query treated as fatal to the call
Final_after_query_fatal(ollama_result, net, verdict) ==
    /\ run' = RunAfter("final", verdict)
    /\ IF ollama_result.success
       THEN /\ escal' = [healthy |-> TRUE, outcome |-> "success",
                         rechecked |-> FALSE, answer |-> ollama_result]
            /\ ISS_cycle' = ISS_cycle + 1
            /\ Final_return(Final_escalated(ollama_result, verdict,
                   Final_primary_cycles + cycle["final"]))
       ELSE /\ escal' = [healthy |-> TRUE, outcome |-> net, rechecked |-> FALSE,
                         answer |-> NoAnswer]
            /\ ISS_cycle' = ISS_cycle
            /\ Final_raise([status |-> "raised", exception |-> "EscalationFailed"])

\* `if ollama_result["success"]: ... return self.thinker.reflect(result)`, else
\* on to the local check; the successful query has stamped an ISS pulse
Final_after_query(ollama_result, net, verdict) ==
    IF ollama_result.success
    THEN /\ run' = RunAfter("final", verdict)
         /\ escal' = [healthy |-> TRUE, outcome |-> "success", rechecked |-> FALSE,
                      answer |-> ollama_result]
         /\ ISS_cycle' = ISS_cycle + 1
         /\ Final_return(Final_escalated(ollama_result, verdict,
                Final_primary_cycles + cycle["final"]))
    ELSE /\ ISS_cycle' = ISS_cycle
         /\ Final_local_check(verdict,
                [healthy |-> TRUE, outcome |-> net, rechecked |-> FALSE,
                 answer |-> NoAnswer])

\* one iteration of `for conflict in range(1, self.conflict_cycles + 1)`
Final_conflict_cycle ==
    /\ pc["final"] = "conflict"
    /\ \E combo \in DrawTable[vault] : Final_draw_and_evaluate(combo)
    /\ \E out \in EvalOutcomes :
        IF out = EvaluatorError
        THEN /\ run' = RunAfter("final", out)
             /\ Final_raise(Raised)
             /\ escal' = [escal EXCEPT !.outcome = "none", !.rechecked = FALSE,
                                       !.answer = NoAnswer]
             /\ UNCHANGED <<query_log, ISS_cycle>>
        ELSE \E healthy \in HealthAnswers(out) :
            IF Final_escalates(out, healthy)
            THEN
                /\ query_log' = query_log \cup
                       {[phase |-> pc["final"], local_resolved |-> is_resolved(out),
                         healthy |-> healthy]}
                /\ \/ \* asyncio.run(self.ollama.query(...)) returns a success
                      \E response \in Responses, model \in Models :
                        LET ollama_result == query("http_200", response, model) IN
                        Final_after_query(ollama_result, "http_200", out)
                   \/ \* ... or returns a failure
                      \E net \in NetOutcomes \ {"http_200"} :
                        LET ollama_result == query(net, "", MODEL_NAME) IN
                        Final_after_query(ollama_result, net, out)
                   \/ \* asyncio.run raises: caught by `except Exception`
                      /\ ISS_cycle' = ISS_cycle
                      /\ Final_local_check(out,
                             [healthy |-> TRUE, outcome |-> "raised",
                              rechecked |-> FALSE, answer |-> NoAnswer])
            ELSE
                /\ UNCHANGED <<query_log, ISS_cycle>>
                /\ Final_local_check(out,
                       [healthy |-> escal.healthy \/ healthy,
                        outcome |-> IF is_resolved(out) THEN "none" ELSE "degraded",
                        rechecked |-> FALSE, answer |-> NoAnswer])
    /\ UNCHANGED <<vault, calls, budget, brainstem_vars, resonator_vars, gateway_vars>>

Final_step ==
    \/ Final_call
    \/ Final_pick_retry
    \/ Final_primary_cycle
    \/ Final_conflict_cycle

-----------------------------------------------------------------------------
(* ISSBrainstem *)

\* the thread's frame with some fields changed
Step(t, frame) == [th EXCEPT ![t] = frame]

\* d[k] = v on a dict
SetItem(d, k, v) == [j \in DOMAIN d \cup {k} |-> IF j = k THEN v ELSE d[j]]

\* the pulse f"PULSE-{ts:.6f}.{self._cycle}": the time has six decimals, so
\* the text after the last dot is the cycle, kept here as its own component
PulseId(ts, c) == [unix |-> ts, cycle |-> c]

\* a component calls pulse() of oracle o (ISS.pulse() in the resonators and
\* the Ollama engine, self.iss.pulse() in Thinker and TaskOrchestrator)
ISS_pulse_call(t) ==
    /\ th[t].pc = "idle"
    /\ th[t].todo > 0
    /\ \E o \in Oracles :
        th' = Step(t, [th[t] EXCEPT !.pc = "acquire", !.op = "pulse", !.o = o,
                                    !.todo = @ - 1])
    /\ UNCHANGED <<iss, issued, called_at, queue, items, offered, taken,
                   harmonizer_vars, resonator_vars, gateway_vars>>

\* pulse() entered without waiting for the lock
ISS_pulse_enter_unlocked(t) ==
    /\ th[t].pc = "acquire"
    /\ iss' = [iss EXCEPT ![th[t].o]._lock = t]
    /\ th' = Step(t, [th[t] EXCEPT !.pc = "load"])
    /\ UNCHANGED <<issued, called_at, queue, items, offered, taken,
                   harmonizer_vars, resonator_vars, gateway_vars>>

\* `with self._lock:` entered: the thread waits until the lock is free
ISS_pulse_acquire(t) ==
    /\ th[t].pc = "acquire"
    /\ iss[th[t].o]._lock = "free"
    /\ iss' = [iss EXCEPT ![th[t].o]._lock = t]
    /\ th' = Step(t, [th[t] EXCEPT !.pc = "load"])
    /\ UNCHANGED <<issued, called_at, queue, items, offered, taken,
                   harmonizer_vars, resonator_vars, gateway_vars>>

\* `self._cycle += 1`, the read
ISS_pulse_load(t) ==
    /\ th[t].pc = "load"
    /\ th' = Step(t, [th[t] EXCEPT !.pc = "store", !.reg = iss[th[t].o]._cycle])
    /\ UNCHANGED <<iss, issued, called_at, queue, items, offered, taken,
                   harmonizer_vars, resonator_vars, gateway_vars>>

\* `self._cycle += 1`, the write
ISS_pulse_store(t) ==
    /\ th[t].pc = "store"
    /\ iss' = [iss EXCEPT ![th[t].o]._cycle = th[t].reg + 1]
    /\ th' = Step(t, [th[t] EXCEPT !.pc = "format"])
    /\ UNCHANGED <<issued, called_at, queue, items, offered, taken,
                   harmonizer_vars, resonator_vars, gateway_vars>>

\* `ts = self.unix()`, the return of the formatted pulse, and the end of the
\* `with` block; a pulse taken inside next() or mark_done() goes on to stamp
\* the item
ISS_pulse_release(t) ==
    /\ th[t].pc = "format"
    /\ \E ts \in Times :
        LET o == th[t].o
            pulse == PulseId(ts, iss[o]._cycle)
        IN /\ iss' = [iss EXCEPT ![o]._lock = "free"]
           /\ issued' = Append(issued, [o |-> o, cycle |-> pulse.cycle, by |-> t])
           /\ th' = Step(t, [th[t] EXCEPT
                  !.pc = IF th[t].op = "pulse" THEN "idle" ELSE "stamp",
                  !.ret = [kind |-> "pulse", value |-> pulse]])
    /\ UNCHANGED <<called_at, queue, items, offered, taken,
                   harmonizer_vars, resonator_vars, gateway_vars>>

\* abs(x)
Abs(x) == IF x < 0 THEN -x ELSE x

\* the stored timestamp replaced only when drift is reported
ISS_last_ts_on_drift(now, last_ts, drifted) == IF drifted THEN now ELSE last_ts

\* `self._last_ts = now`
ISS_last_ts(now, last_ts, drifted) == now

\* detect_drift(threshold_seconds) on oracle o, the calls on one oracle being
\* made one after the other
ISS_detect_drift(t) ==
    /\ th[t].pc = "idle"
    /\ th[t].todo > 0
    /\ \E o \in Oracles, threshold_seconds \in Times, now \in Times :
        LET delta == Abs(now - iss[o]._last_ts)
            drifted == delta > threshold_seconds
        IN /\ iss' = [iss EXCEPT ![o]._last_ts = ISS_last_ts(now, @, drifted)]
           /\ called_at' = [called_at EXCEPT ![o] = now]
           /\ th' = Step(t, [th[t] EXCEPT
                  !.op = "detect_drift", !.o = o, !.todo = @ - 1,
                  !.ret = [kind |-> "bool", value |-> drifted, now |-> now,
                           previous |-> called_at[o],
                           threshold_seconds |-> threshold_seconds]])
    /\ UNCHANGED <<issued, queue, items, offered, taken,
                   harmonizer_vars, resonator_vars, gateway_vars>>

\* detect_drift of oracle o called by a thread next to other threads,
\* `now = time.time()`
ISS_drift_call(t, o) ==
    /\ th[t].pc = "idle"
    /\ th[t].todo > 0
    /\ \E threshold_seconds \in Times, now \in Times :
        th' = Step(t, [th[t] EXCEPT
               !.pc = "drift_load", !.op = "detect_drift", !.o = o, !.todo = @ - 1,
               !.ret = [kind |-> "pending", now |-> now,
                        threshold_seconds |-> threshold_seconds]])
    /\ UNCHANGED <<iss, issued, called_at, queue, items, offered, taken,
                   harmonizer_vars, resonator_vars, gateway_vars>>

\* the read of self._last_ts made under the pulse lock, which is not released
ISS_drift_load_locked(t) ==
    /\ th[t].pc = "drift_load"
    /\ iss[th[t].o]._lock = "free"
    /\ iss' = [iss EXCEPT ![th[t].o]._lock = t]
    /\ th' = Step(t, [th[t] EXCEPT !.pc = "drift_store", !.reg = iss[th[t].o]._last_ts])
    /\ UNCHANGED <<issued, called_at, queue, items, offered, taken,
                   harmonizer_vars, resonator_vars, gateway_vars>>

\* `delta = abs(now - self._last_ts)`, the read of self._last_ts
ISS_drift_load(t) ==
    /\ th[t].pc = "drift_load"
    /\ th' = Step(t, [th[t] EXCEPT !.pc = "drift_store", !.reg = iss[th[t].o]._last_ts])
    /\ UNCHANGED <<iss, issued, called_at, queue, items, offered, taken,
                   harmonizer_vars, resonator_vars, gateway_vars>>

\* `self._last_ts = now` and `return delta > threshold_seconds`
ISS_drift_store(t) ==
    /\ th[t].pc = "drift_store"
    /\ LET now == th[t].ret.now
           delta == Abs(now - th[t].reg)
           drifted == delta > th[t].ret.threshold_seconds
       IN /\ iss' = [iss EXCEPT ![th[t].o]._last_ts = ISS_last_ts(now, @, drifted)]
          /\ called_at' = [called_at EXCEPT ![th[t].o] = now]
          /\ th' = Step(t, [th[t] EXCEPT
                 !.pc = "idle",
                 !.ret = [kind |-> "bool", value |-> drifted, now |-> now,
                          previous |-> th[t].reg,
                          threshold_seconds |-> th[t].ret.threshold_seconds]])
    /\ UNCHANGED <<issued, queue, items, offered, taken,
                   harmonizer_vars, resonator_vars, gateway_vars>>

-----------------------------------------------------------------------------
(* Thinker.reflect, called by a thread on the dict it holds *)

\* reflect(merged_verdict), up to `pulse = self.iss.pulse()`
Thinker_reflect(t) ==
    /\ th[t].pc = "idle"
    /\ th[t].todo > 0
    /\ th' = Step(t, [th[t] EXCEPT !.pc = "acquire", !.op = "reflect",
                                   !.o = "Thinker", !.item = t, !.todo = @ - 1])
    /\ UNCHANGED <<iss, issued, called_at, queue, items, offered, taken,
                   harmonizer_vars, resonator_vars, gateway_vars>>

\* the record built and returned, the input dict marked as reflected
Thinker_reflect_return_marking(t) ==
    /\ th[t].pc = "stamp"
    /\ th[t].op = "reflect"
    /\ items' = [items EXCEPT ![t] = SetItem(@, "reflected", TRUE)]
    /\ th' = Step(t, [th[t] EXCEPT
           !.pc = "idle",
           !.ret = [kind |-> "reflection",
                    value |-> reflect(items'[t], th[t].ret.value.cycle)]])
    /\ UNCHANGED <<iss, issued, called_at, queue, offered, taken,
                   harmonizer_vars, resonator_vars, gateway_vars>>

\* `stardate = self.iss.stardate()`, `refined = {...}` and `return refined`
Thinker_reflect_return(t) ==
    /\ th[t].pc = "stamp"
    /\ th[t].op = "reflect"
    /\ items' = items
    /\ th' = Step(t, [th[t] EXCEPT
           !.pc = "idle",
           !.ret = [kind |-> "reflection",
                    value |-> reflect(items[t], th[t].ret.value.cycle)]])
    /\ UNCHANGED <<iss, issued, called_at, queue, offered, taken,
                   harmonizer_vars, resonator_vars, gateway_vars>>

-----------------------------------------------------------------------------
(* TaskOrchestrator.  __init__ binds self.queue to the deque, and an instance *)
(* attribute hides the method of the same name: `orchestrator.queue(item)`   *)
(* looks up the deque and calls it.                                          *)

\* the {} next() returns on an empty queue
EmptyItem == [k \in {} |-> 0]

\* orchestrator.queue(item): the deque is not callable
TaskOrchestrator_queue(t) ==
    /\ th[t].pc = "idle"
    /\ th[t].todo > 0
    /\ offered' = Append(offered, t)
    /\ th' = Step(t, [th[t] EXCEPT
           !.op = "queue", !.item = t, !.todo = @ - 1,
           !.trace = Append(@, "queue"),
           !.ret = [kind |-> "raise", exception |-> "TypeError"]])
    /\ UNCHANGED <<iss, issued, called_at, queue, items, taken,
                   harmonizer_vars, resonator_vars, gateway_vars>>

\* the body of the method queue (lines 23-26), which no call reaches: pulse,
\* item["queued_at"] = pulse, self.queue.append(item), return pulse
TaskOrchestrator_queue_body(t, pulse) ==
    /\ items' = [items EXCEPT ![t] = SetItem(@, "queued_at", pulse)]
    /\ queue' = Append(queue, t)
    /\ th' = Step(t, [th[t] EXCEPT !.pc = "idle",
                                   !.ret = [kind |-> "pulse", value |-> pulse]])

\* `if not self.queue: return {}`, with a pulse taken before the return
TaskOrchestrator_next_empty_pulsing(t) ==
    /\ iss' = [iss EXCEPT !["TaskOrchestrator"]._cycle = @ + 1]
    /\ th' = Step(t, [th[t] EXCEPT
           !.op = "next", !.todo = @ - 1, !.trace = Append(@, "next"),
           !.ret = [kind |-> "item", value |-> EmptyItem]])

\* `if not self.queue: return {}`
TaskOrchestrator_next_empty(t) ==
    /\ iss' = iss
    /\ th' = Step(t, [th[t] EXCEPT
           !.op = "next", !.todo = @ - 1, !.trace = Append(@, "next"),
           !.ret = [kind |-> "item", value |-> EmptyItem]])

\* orchestrator.next(), up to the test of the queue
TaskOrchestrator_next(t) ==
    /\ th[t].pc = "idle"
    /\ th[t].todo > 0
    /\ IF queue = <<>>
       THEN TaskOrchestrator_next_empty(t)
       ELSE /\ iss' = iss
            /\ th' = Step(t, [th[t] EXCEPT !.pc = "popleft", !.op = "next",
                                           !.todo = @ - 1])
    /\ UNCHANGED <<issued, called_at, queue, items, offered, taken,
                   harmonizer_vars, resonator_vars, gateway_vars>>

\* `item = self.queue.popleft()`, IndexError on a deque emptied meanwhile
TaskOrchestrator_next_popleft(t) ==
    /\ th[t].pc = "popleft"
    /\ IF queue = <<>>
       THEN /\ queue' = queue
            /\ th' = Step(t, [th[t] EXCEPT
                   !.pc = "idle", !.trace = Append(@, "next"),
                   !.ret = [kind |-> "raise", exception |-> "IndexError"]])
       ELSE /\ queue' = Tail(queue)
            /\ th' = Step(t, [th[t] EXCEPT !.pc = "acquire", !.item = Head(queue),
                                           !.o = "TaskOrchestrator"])
    /\ UNCHANGED <<iss, issued, called_at, items, offered, taken,
                   harmonizer_vars, resonator_vars, gateway_vars>>

\* `item["executed_at"] = self.iss.pulse()` and `return item`
TaskOrchestrator_next_stamp(t) ==
    /\ th[t].pc = "stamp"
    /\ th[t].op = "next"
    /\ items' = [items EXCEPT ![th[t].item] =
                    SetItem(@, "executed_at", th[t].ret.value)]
    /\ taken' = Append(taken, th[t].item)
    /\ th' = Step(t, [th[t] EXCEPT
           !.pc = "idle", !.trace = Append(@, "next"),
           !.ret = [kind |-> "item", value |-> items'[th[t].item]]])
    /\ UNCHANGED <<iss, issued, called_at, queue, offered,
                   harmonizer_vars, resonator_vars, gateway_vars>>

\* orchestrator.mark_done(item) on the caller's dict, up to self.iss.pulse()
TaskOrchestrator_mark_done(t) ==
    /\ th[t].pc = "idle"
    /\ th[t].todo > 0
    /\ th' = Step(t, [th[t] EXCEPT !.pc = "acquire", !.op = "mark_done",
                                   !.o = "TaskOrchestrator", !.item = t,
                                   !.todo = @ - 1])
    /\ UNCHANGED <<iss, issued, called_at, queue, items, offered, taken,
                   harmonizer_vars, resonator_vars, gateway_vars>>

\* `item["completed_at"] = pulse` and `return pulse`
TaskOrchestrator_mark_done_stamp(t) ==
    /\ th[t].pc = "stamp"
    /\ th[t].op = "mark_done"
    /\ items' = [items EXCEPT ![th[t].item] =
                    SetItem(@, "completed_at", th[t].ret.value)]
    /\ th' = Step(t, [th[t] EXCEPT !.pc = "idle",
                                   !.trace = Append(@, "mark_done")])
    /\ UNCHANGED <<iss, issued, called_at, queue, offered, taken,
                   harmonizer_vars, resonator_vars, gateway_vars>>

-----------------------------------------------------------------------------
(* SynapticResonator.  One step is one resonate call: the firing of the     *)
(* bank, the pyramid, the Ollama annotation, the trace and its write to the *)
(* reflection vault.                                                        *)

\* how the annotation of one call can go: health_check gives False; the
\* query gives one of its answers; or asyncio.run raises, as it does when
\* the caller is itself running in an event loop
ResonateOutcomes == {"unhealthy", "loop_running"} \cup NetOutcomes

\* how VaultAPI.write_reflection can go: the file is written, or write_text
\* raises (the reflection directory is missing)
SinkOutcomes == {"written", "error"}

\* the Ollama block of resonate with an exception of asyncio.run let through
annotation_uncaught(outcome) ==
    IF outcome = "unhealthy"
    THEN [raised |-> FALSE, ollama_reasoning |-> None]
    ELSE IF outcome = "loop_running"
    THEN [raised |-> TRUE, ollama_reasoning |-> None]
    ELSE LET ollama_result == query(outcome, "reasoning", "phi3:mini") IN
         IF ollama_result.success
         THEN [raised |-> FALSE,
               ollama_reasoning |-> [reasoning |-> ollama_result.response,
                                     model |-> ollama_result.model,
                                     performance |-> "performance"]]
         ELSE [raised |-> FALSE, ollama_reasoning |-> None]

\* the Ollama block of resonate: whether an exception leaves it, and
\* ollama_reasoning after it
annotation(outcome) ==
    IF outcome = "unhealthy"
    THEN [raised |-> FALSE, ollama_reasoning |-> None]
    ELSE IF outcome = "loop_running"
    THEN [raised |-> FALSE, ollama_reasoning |-> None]
    ELSE LET ollama_result == query(outcome, "reasoning", "phi3:mini") IN
         IF ollama_result.success
         THEN [raised |-> FALSE,
               ollama_reasoning |-> [reasoning |-> ollama_result.response,
                                     model |-> ollama_result.model,
                                     performance |-> "performance"]]
         ELSE [raised |-> FALSE, ollama_reasoning |-> None]

\* the pulses of the module-level ISS one call takes: one in a query that
\* succeeds, one for the trace's cycle_id
Resonate_pulses(outcome, raised) ==
    (IF outcome = "http_200" THEN 1 ELSE 0) + (IF raised THEN 0 ELSE 1)

\* _log without `self.ref_count += 1`
_log_uncounted(h, data) ==
    /\ reflections' = Append(reflections,
           [rid |-> h \o "_syn_res_" \o format_06d(ref_count[h]), data |-> data])
    /\ ref_count' = ref_count

\* SynapticResonator._log(data), the write succeeding
_log(h, data) ==
    /\ reflections' = Append(reflections,
           [rid |-> h \o "_syn_res_" \o format_06d(ref_count[h]), data |-> data])
    /\ ref_count' = [ref_count EXCEPT ![h] = @ + 1]

\* the right resonator's write of its audit record: the id follows
\* {hemisphere}_{stage}_{counter:06d}, the counter grows by one per record
Right_log(h, data) ==
    /\ reflections' = Append(reflections,
           [rid |-> "right" \o "_syn_res_" \o format_06d(ref_count["right"]),
            data |-> data])
    /\ ref_count' = [ref_count EXCEPT !["right"] = @ + 1]

\* [syn.fire(stimulus_value) for syn in self.synapses], up to the n-th unit
\* of the bank
RECURSIVE fire_all(_, _, _, _)
fire_all(bank, stimulus_value, stream, n) ==
    IF n = 0 THEN <<>>
    ELSE Append(fire_all(bank, stimulus_value, stream, n - 1),
                fire(Synapse(bank[n]), stimulus_value, stream[n]))

\* the dict `result` of resonate, cycle_id being the cycle of the pulse taken
\* for it
Trace(h, stimulus_value, pyramid_out, ollama_reasoning, cycle_id) ==
    [hemisphere |-> h,
     stardate |-> "SD",
     cycle_id |-> cycle_id,
     input_value |-> stimulus_value,
     node_outputs |-> pyramid_out,
     synaptic_verdict |-> pyramid_out[1],
     ollama_enhancement |-> ollama_reasoning]

\* one resonate call of resonator h, which writes its trace with its _log
Resonate(h, stream, outcome, sink) ==
    /\ stimuli[h] # <<>>
    /\ \E values \in {fire_all(synapses[h], Head(stimuli[h]), stream, 3 * PerMode)} :
       \E pyramid_out \in {_fan_pass(values)} :
       \E block \in {annotation(outcome)} :
       \E trace \in {Trace(h, Head(stimuli[h]), pyramid_out, block.ollama_reasoning,
                            ISS_cycle + Resonate_pulses(outcome, block.raised))} :
          /\ stimuli' = [stimuli EXCEPT ![h] = Tail(@)]
          /\ fired' = [fired EXCEPT ![h] = values]
          /\ ollama' = [ollama EXCEPT ![h] = outcome]
          /\ ISS_cycle' = ISS_cycle + Resonate_pulses(outcome, block.raised)
          /\ IF block.raised \/ sink = "error"
             THEN /\ resonated' = [resonated EXCEPT ![h] =
                         [status |-> "raised",
                          exception |-> IF block.raised THEN "RuntimeError"
                                        ELSE "FileNotFoundError"]]
                  /\ UNCHANGED <<reflections, ref_count>>
             ELSE /\ IF h = "right" THEN Right_log(h, trace)
                                    ELSE _log(h, trace)
                  /\ resonated' = [resonated EXCEPT ![h] =
                         [synaptic_verdict |-> pyramid_out[1],
                          pyramid_trace |-> trace,
                          ollama_reasoning |-> block.ollama_reasoning]]
    /\ UNCHANGED <<vault, previous_sets, pc, cycle, retries, evaluated, run,
                   escal, query_log, thinker_cycle, result, calls, budget,
                   brainstem_vars, seeds, synapses, gateway_vars>>

\* SynapticResonator.resonate(stimulus_value) on the resonator built as
\* SynapticResonator(h)
SynapticResonator_resonate(h, stream, outcome, sink) ==
    Resonate(h, stream, outcome, sink)

\* resonate of the right hemisphere's resonator
Right_resonate(stream, outcome, sink) ==
    Resonate("right", stream, outcome, sink)

-----------------------------------------------------------------------------
(* Specifications *)

\* the caller makes n calls on each instance of `on` and none on the others
Calls(on, n) == [h \in Inst |-> IF h \in on THEN n ELSE 0]

\* the two hemisphere harmonizers side by side, their cycles interleaved, over
\* a vault of 5 combos: the primary loops can run to their end, and no
\* conflict cycle can complete (its draw finds no sixth combo)
Init == InitWith({Vault5}, {Calls(Hemis, MaxPairCalls)})

Next ==
    \/ Left_call
    \/ Left_pick_retry
    \/ Left_primary_cycle
    \/ Right_call
    \/ Right_pick_retry
    \/ Right_primary_cycle

Spec == Init /\ [][Next]_vars

\* one hemisphere harmonizer alone (either one), over a vault of 6 or of 10
\* combos
InitRun == InitWith({Vault6, Vault10}, {Calls({h}, MaxCalls) : h \in Hemis})

NextRun == Left_step \/ Right_step

SpecRun == InitRun /\ [][NextRun]_vars

\* everything of instance h that its draws and its evaluator's answers
\* determine, the source label of its result left out
Twin(h) ==
    <<previous_sets[h], pc[h], cycle[h], retries[h], evaluated[h], run[h],
      [k \in DOMAIN result[h] \ {"source"} |-> result[h][k]], calls[h]>>

\* both hemisphere harmonizers have been given the same calls, draws and
\* evaluator answers so far and stand alike
InSync == Twin("left") = Twin("right")

\* the two hemisphere harmonizers over the same vault, fed the same calls,
\* draws and evaluator answers: from a common state the left instance takes
\* a step of its code on any input, then the right instance takes its step
\* on that same input (the combo drawn and the evaluator's answer are part of
\* the state the follower has to reach)
InitTwin == InitWith({Vault10}, {Calls(Hemis, MaxTwinCalls)})

Left_lead == InSync /\ Left_step

Right_follow == ~InSync /\ Right_step /\ Twin("right")' = Twin("left")

NextTwin == Left_lead \/ Right_follow

SpecTwin == InitTwin /\ [][NextTwin]_vars

\* the cycle engine of instance h: its history, its place in the loops, its
\* evaluator calls, and of its result the status with, when resolved, the
\* verdict and the cycle count (the final harmonizer's result is the
\* `original` of the reflection it returns)
Engine(h) ==
    LET r == IF "original" \in DOMAIN result[h] THEN result[h].original
             ELSE result[h]
    IN <<previous_sets[h], pc[h], cycle[h], retries[h], evaluated[h], run[h],
         calls[h],
         IF r.status = "resolved" THEN <<r.status, r.verdict, r.cycles>>
         ELSE <<r.status>>>>

\* the left and the final harmonizer have been given the same calls, draws and
\* evaluator answers so far and their engines stand alike
InSyncFinal == Engine("left") = Engine("final")

\* a hemisphere harmonizer and the final harmonizer over the same vault, fed
\* the same calls, draws and evaluator answers, health_check() answering
\* False whenever the final harmonizer calls it: the left instance takes a
\* step on any input, then the final harmonizer takes its step on that input
InitTwinFinal == InitWith({Vault10}, {Calls({"left", "final"}, MaxTwinCalls)})

Left_lead_final == InSyncFinal /\ Left_step

Final_follow ==
    /\ ~InSyncFinal
    /\ Final_step
    /\ ~escal'.healthy
    /\ Engine("final")' = Engine("left")

NextTwinFinal == Left_lead_final \/ Final_follow

SpecTwinFinal == InitTwinFinal /\ [][NextTwinFinal]_vars

\* the final harmonizer alone, over a vault of 6 or of 10 combos
InitFinal == InitWith({Vault6, Vault10}, {Calls({"final"}, MaxCalls)})

NextFinal == Final_step

SpecFinal == InitFinal /\ [][NextFinal]_vars

\* no harmonizer is called
NoCalls == Calls({}, 0)

\* every thread makes n calls
Quota(n) == [t \in Threads |-> n]

\* the threads call pulse() on the oracles, each thread on whichever oracle
InitPulse ==
    /\ HarmonizersInit({Vault5}, {NoCalls})
    /\ BrainstemInit({Quota(MaxPulses)}, {AtZero})
    /\ ResonatorsIdle
    /\ GatewayIdle

NextPulse ==
    \E t \in Threads :
        \/ ISS_pulse_call(t)
        \/ ISS_pulse_acquire(t)
        \/ ISS_pulse_load(t)
        \/ ISS_pulse_store(t)
        \/ ISS_pulse_release(t)

SpecPulse == InitPulse /\ [][NextPulse]_vars

\* the threads call pulse() on the oracles and detect_drift() on the
\* singleton ISS side by side, the second thread with one call to make
InitRace ==
    /\ HarmonizersInit({Vault5}, {NoCalls})
    /\ BrainstemInit({[t \in Threads |-> IF t = "t1" THEN MaxRaceCalls ELSE 1]},
                     {AtZero})
    /\ ResonatorsIdle
    /\ GatewayIdle

NextRace ==
    \E t \in Threads :
        \/ ISS_pulse_call(t)
        \/ ISS_pulse_acquire(t)
        \/ ISS_pulse_load(t)
        \/ ISS_pulse_store(t)
        \/ ISS_pulse_release(t)
        \/ ISS_drift_call(t, "ISS")
        \/ ISS_drift_load(t)
        \/ ISS_drift_store(t)

SpecRace == InitRace /\ [][NextRace]_vars

\* a caller makes authorize calls on an IntentConsent it has built, as the
\* consent test does, each behaviour with one intent and one context
InitConsent ==
    /\ HarmonizersInit({Vault5}, {NoCalls})
    /\ BrainstemInit({NoQuota}, {AtZero})
    /\ ResonatorsIdle
    /\ GatewayInit([intent : Intents, context : Contexts])

NextConsent == IntentConsent_authorize

SpecConsent == InitConsent /\ [][NextConsent]_vars

\* the gateway is loaded and handed a think request, before or after its
\* startup event; the context is the one think builds
InitThink ==
    /\ HarmonizersInit({Vault5}, {NoCalls})
    /\ BrainstemInit({NoQuota}, {AtZero})
    /\ ResonatorsIdle
    /\ GatewayInit([intent : Intents, context : {[priority |-> "normal"]}])

NextThink == startup_event \/ think

SpecThink == InitThink /\ [][NextThink]_vars

\* the results handed to Thinker.reflect: what the harmonizers build
ReflectInputs ==
    {Final_unresolved, Final_resolved("agree", 1), Left_unresolved,
     Final_escalated(query("http_200", "bridge", MODEL_NAME), "conflict",
                     Final_primary_cycles + 1)}

\* the threads call reflect on one Thinker, each on the result it holds
InitReflect ==
    /\ HarmonizersInit({Vault5}, {NoCalls})
    /\ BrainstemInitWith({Quota(MaxPulses)}, {AtZero}, [Threads -> ReflectInputs])
    /\ ResonatorsIdle
    /\ GatewayIdle

NextReflect ==
    \E t \in Threads :
        \/ Thinker_reflect(t)
        \/ ISS_pulse_acquire(t)
        \/ ISS_pulse_load(t)
        \/ ISS_pulse_store(t)
        \/ ISS_pulse_release(t)
        \/ Thinker_reflect_return(t)

SpecReflect == InitReflect /\ [][NextReflect]_vars

\* the left resonator, built from any of the seeds and shuffled, is handed
\* one stimulus; Ollama is down and the vault takes the record
InitResonate ==
    /\ HarmonizersInit({Vault5}, {NoCalls})
    /\ BrainstemInit({NoQuota}, {AtZero})
    /\ ResonatorsInit([{"intuition", "induction", "deduction"} -> SeedProfiles],
                      {[h \in {"left", "right"} |-> IF h = "left" THEN b ELSE Built] :
                          b \in Shuffles},
                      {[h \in {"left", "right"} |-> IF h = "left" THEN <<s>> ELSE <<>>] :
                          s \in Stimuli})
    /\ GatewayIdle

NextResonate ==
    \E stream \in RandomStreams :
        SynapticResonator_resonate("left", stream, "unhealthy", "written")

SpecResonate == InitResonate /\ [][NextResonate]_vars

\* random.random() giving 0.0 to every unit
Still == [k \in Units |-> 0]

\* the left resonator, unperturbed, is handed stimuli; the annotation and the
\* write go every way they can
InitAnnotate ==
    /\ HarmonizersInit({Vault5}, {NoCalls})
    /\ BrainstemInit({NoQuota}, {AtZero})
    /\ ResonatorsInit({Unperturbed}, {[h \in {"left", "right"} |-> Built]},
                      {[h \in {"left", "right"} |->
                           IF h = "left" THEN [k \in 1..MaxResonates |-> s] ELSE <<>>] :
                          s \in {0, Half, One}})
    /\ GatewayIdle

NextAnnotate ==
    \E outcome \in ResonateOutcomes, sink \in SinkOutcomes :
        SynapticResonator_resonate("left", Still, outcome, sink)

SpecAnnotate == InitAnnotate /\ [][NextAnnotate]_vars

\* both resonators, unperturbed, are handed stimuli; Ollama is down and the
\* write goes either way
InitAudit ==
    /\ HarmonizersInit({Vault5}, {NoCalls})
    /\ BrainstemInit({NoQuota}, {AtZero})
    /\ ResonatorsInit({Unperturbed}, {[h \in {"left", "right"} |-> Built]},
                      {[h \in {"left", "right"} |-> [k \in 1..n[h] |-> Half]] :
                          n \in [{"left", "right"} -> 0..MaxResonates]})
    /\ GatewayIdle

NextAudit ==
    \E sink \in SinkOutcomes :
        \/ SynapticResonator_resonate("left", Still, "unhealthy", sink)
        \/ Right_resonate(Still, "unhealthy", sink)

SpecAudit == InitAudit /\ [][NextAudit]_vars

\* one caller makes detect_drift calls on oracles built at any time
InitDrift ==
    /\ HarmonizersInit({Vault5}, {NoCalls})
    /\ BrainstemInit({[t \in Threads |-> IF t = "t1" THEN MaxDriftCalls ELSE 0]},
                     [Oracles -> Times])
    /\ ResonatorsIdle
    /\ GatewayIdle

NextDrift == \E t \in Threads : ISS_detect_drift(t)

SpecDrift == InitDrift /\ [][NextDrift]_vars

\* two threads call the task queue, each with its own task dict
InitTasks ==
    /\ HarmonizersInit({Vault5}, {NoCalls})
    /\ BrainstemInit({[t \in Threads |-> IF t = "t1" THEN MaxOps ELSE MaxPeerOps]},
                     {AtZero})
    /\ ResonatorsIdle
    /\ GatewayIdle

\* the steps of next() after the test of the queue (popleft and the stamp)
\* are left out: they need a queue that is not empty, and queue() never
\* appends
NextTasks ==
    \E t \in Threads :
        \/ TaskOrchestrator_queue(t)
        \/ TaskOrchestrator_next(t)
        \/ TaskOrchestrator_mark_done(t)
        \/ ISS_pulse_acquire(t)
        \/ ISS_pulse_load(t)
        \/ ISS_pulse_store(t)
        \/ ISS_pulse_release(t)
        \/ TaskOrchestrator_mark_done_stamp(t)

SpecTasks == InitTasks /\ [][NextTasks]_vars

-----------------------------------------------------------------------------
(* Properties of the hemisphere harmonizers *)

\* the same philosopher and the same set of logic seeds, in whatever order
SameCombo(a, b) == a[1] = b[1] /\ Range(a[2]) = Range(b[2])

\* every combo of the vault is in the instance's history
Exhausted(h) == \A combo \in DrawTable[vault] : BagIn(combo, previous_sets[h])

\* C1: no (philosopher, logic-set) combo is handed to the evaluator twice,
\* two combos being the same when philosopher and seed set agree whatever the
\* order of the seeds.  Stated of every combo an instance has ever handed to
\* vault.evaluate, which covers each single run.
C1_NoComboTwice ==
    \A h \in Hemis : \A a \in BagToSet(evaluated[h]) :
        /\ CopiesIn(a, evaluated[h]) = 1
        /\ \A b \in BagToSet(evaluated[h]) : SameCombo(a, b) => a = b

\* a run that has handed the evaluator two different logic sets of one
\* philosopher
C1_Witness ==
    \E h \in Hemis :
        /\ run[h].evals >= 2
        /\ \E a, b \in BagToSet(evaluated[h]) : a # b /\ a[1] = b[1]

\* C2: every harmonize call terminates, after at most base_cycles +
\* conflict_cycles (10) evaluator calls: a running call never makes an 11th
\* evaluator call and can always finish the cycle it is in (the draw loop of
\* the cycle can leave with a new combo).
C2_TerminatesWithin10 ==
    /\ \A h \in Hemis : run[h].evals <= total_cycles(h)
    /\ pc["left"] # "idle" => ENABLED (Left_primary_cycle \/ Left_conflict_cycle)
    /\ pc["right"] # "idle" => ENABLED (Right_primary_cycle \/ Right_conflict_cycle)

\* C3: a draw made when every combo of the vault is used raises
\* ExhaustedSeedSpace to the caller of harmonize instead of retrying: every
\* iteration of the draw loop taken in that state ends the call with it.
C3_ExhaustionRaises ==
    [][\A h \in Hemis :
        (pc[h] # "idle" /\ Exhausted(h) /\ retries'[h] # retries[h])
            => (pc'[h] = "idle" /\ result'[h] =
                    [status |-> "raised", exception |-> "ExhaustedSeedSpace"])]_vars

\* C4: when attempt k is the first whose verdict is_resolved accepts, the
\* call has returned status resolved with that verdict and cycles = k, after
\* exactly k evaluator calls.
C4_ResolvedAtK ==
    \A h \in Hemis :
        run[h].resolvedAt > 0 =>
            /\ pc[h] = "idle"
            /\ run[h].evals = run[h].resolvedAt
            /\ result[h].status = "resolved"
            /\ result[h].verdict = run[h].verdict
            /\ result[h].cycles = run[h].resolvedAt

\* a call resolved in conflict cycle 2, the 7th attempt
C4_Witness ==
    \E h \in Hemis : run[h].resolvedAt = 7 /\ result[h].status = "resolved"

\* C5: a call whose 10 attempts all returned an unresolved verdict returns
\* status unresolved, verdict "UNRESOLVED" and cycles = 10, and that result is
\* returned only after exactly 10 evaluator calls.
C5_UnresolvedAfter10 ==
    \A h \in Hemis :
        /\ (/\ run[h].evals = total_cycles(h)
            /\ run[h].resolvedAt = 0
            /\ run[h].verdict \in Verdicts)
            => /\ pc[h] = "idle"
               /\ result[h].status = "unresolved"
               /\ result[h].verdict = "UNRESOLVED"
               /\ result[h].cycles = total_cycles(h)
        /\ result[h].status = "unresolved"
            => run[h].evals = 10 /\ run[h].resolvedAt = 0

\* a call that has returned unresolved
C5_Witness ==
    \E h \in Hemis : result[h].status = "unresolved" /\ run[h].evals = 10

\* everything one harmonizer instance owns
InstState(h) ==
    <<previous_sets[h], pc[h], cycle[h], retries[h], evaluated[h], run[h],
      result[h], calls[h]>>

\* C6: the left and right instances share no combo history or other mutable
\* state: a step that changes anything of one instance leaves everything of
\* the other unchanged, however their calls interleave.  (The cycle bounds are
\* assigned in __init__ alone.)
C6_Independent ==
    [][\A h, g \in Hemis :
        (h # g /\ InstState(h)' # InstState(h)) => InstState(g)' = InstState(g)]_vars

\* one combo drawn by both instances, while both calls are running
C6_Witness ==
    /\ pc["left"] # "idle" /\ pc["right"] # "idle"
    /\ \E combo \in DrawTable[vault] :
        BagIn(combo, previous_sets["left"]) /\ BagIn(combo, previous_sets["right"])

\* C28: when vault.evaluate (or is_resolved) raises during a cycle, the
\* harmonizer counts the cycle as unresolved and goes on: the call is still
\* running, or has returned a result, and has not failed.
C28_EvaluatorFailureContinues ==
    \A h \in Inst :
        run[h].verdict = EvaluatorError =>
            /\ "exception" \notin DOMAIN result[h]
            /\ pc[h] # "idle" \/ "status" \in DOMAIN result[h]

\* C29: the combo history keeps its invariants across an exception raised in
\* a cycle: it holds no combo twice, every combo handed to the evaluator is in
\* it, and no combo is handed to the evaluator twice, in the call that raised
\* or in any later call on the instance.
C29_HistoryIntact ==
    \A h \in Inst :
        /\ \A combo \in BagToSet(previous_sets[h]) :
            CopiesIn(combo, previous_sets[h]) = 1
        /\ \A combo \in BagToSet(evaluated[h]) :
            /\ BagIn(combo, previous_sets[h])
            /\ CopiesIn(combo, evaluated[h]) = 1

\* the evaluator has raised in the second call on an instance, after the
\* first cycle of that call
C29_Witness ==
    \E h \in Hemis :
        /\ result[h] = Raised
        /\ run[h].verdict = EvaluatorError
        /\ calls[h] = 2
        /\ run[h].evals >= 2
        /\ BagCardinality(previous_sets[h]) >= 3

\* C35: HarmonizerRight behaves as HarmonizerLeft does.  Whenever the left
\* instance has taken a step from a common state, the right one can take its
\* own step on the same draw and the same evaluator answer, and that step
\* brings it to the state of the left: the same history, the same evaluator
\* calls, the same position in the loops and the same result but for the
\* source label, which is the instance's own.
C35_RightMirrorsLeft ==
    /\ ~InSync => ENABLED Right_follow
    /\ \A h \in Hemis : "source" \in DOMAIN result[h] =>
           result[h].source = (IF h = "left" THEN "Left_Hemisphere"
                               ELSE "Right_Hemisphere")

\* both instances have returned the result of a call resolved in a conflict
\* cycle, alike but for the source
C35_Witness ==
    /\ InSync
    /\ result["left"].status = "resolved"
    /\ result["left"].cycles > Left_base_cycles
    /\ result["right"].cycles = result["left"].cycles
    /\ result["right"].verdict = result["left"].verdict
    /\ result["left"].source # result["right"].source

\* C33: the combo history of an instance only grows, across harmonize calls
\* too: no step takes a combo out of it, a combo it gains was not in it
\* before (whichever call put it there), and after every step its length is
\* the number of evaluator calls the instance has made in its lifetime.
C33_HistoryAppendOnly ==
    [][\A h \in Inst :
        /\ previous_sets[h] \sqsubseteq previous_sets'[h]
        /\ \A combo \in BagToSet(previous_sets'[h]) :
            CopiesIn(combo, previous_sets'[h]) = 1
        /\ BagCardinality(previous_sets'[h]) = BagCardinality(evaluated'[h])]_vars

\* the second call on an instance has drawn a combo, the history holding the
\* combos of the first call next to it
C33_Witness ==
    \E h \in Hemis :
        /\ calls[h] = 2
        /\ run[h].evals >= 1
        /\ BagCardinality(previous_sets[h]) > run[h].evals

-----------------------------------------------------------------------------
(* Properties of the final harmonizer *)

\* what harmonize handed to thinker.reflect
Harmonized == result["final"].original

\* the keys of the record Thinker.reflect builds
ReflectionKeys == {"original", "reflection", "confidence", "pulse", "stardate"}

\* the statuses harmonize gives its results (resolved_ollama is the spec's
\* resolved_escalated)
Final_statuses == {"resolved", "resolved_ollama", "unresolved"}

\* C11: every result harmonize builds, on every return path, carries source,
\* verdict, cycles (the spec's cyclesUsed) and status, the status being one of
\* resolved, resolved_ollama or unresolved.
C11_ResultFields ==
    (pc["final"] = "idle" /\ "original" \in DOMAIN result["final"])
        => /\ {"source", "verdict", "cycles", "status"} \subseteq DOMAIN Harmonized
           /\ Harmonized.status \in Final_statuses

\* C12: a step on which harmonize hands a value to its caller calls
\* Thinker.reflect exactly once (one pulse of the Thinker's oracle) and hands
\* over the reflection record of that call, whose `original` is the
\* harmonization result itself and not a reflection; no other step reflects.
C12_ReflectedOnce ==
    [][LET after == result["final"]' IN
       IF /\ pc["final"] # "idle"
          /\ pc["final"]' = "idle"
          /\ "exception" \notin DOMAIN after
       THEN /\ thinker_cycle' = thinker_cycle + 1
            /\ DOMAIN after = ReflectionKeys
            /\ after.pulse = thinker_cycle'
            /\ after.reflection = "Meta-analysis applied"
            /\ "original" \notin DOMAIN after.original
            /\ after.original.status \in Final_statuses
            /\ after.original.source \in {"Final_Core", "Final_Core_Ollama"}
       ELSE thinker_cycle' = thinker_cycle]_vars

\* the second call on the instance has returned through the Ollama branch,
\* reflected by the second pulse of the Thinker
C12_Witness ==
    /\ pc["final"] = "idle"
    /\ thinker_cycle = 2
    /\ "original" \in DOMAIN result["final"]
    /\ result["final"].pulse = 2
    /\ Harmonized.status = "resolved_ollama"

\* C7: with an evaluator that never resolves and an oracle that is never
\* healthy, harmonize terminates (a running call can always finish its cycle)
\* after exactly 10 evaluator calls, with status unresolved and verdict
\* "UNRESOLVED_RETURN_TO_RESONATOR".
C7_UnreachableOracle ==
    (run["final"].resolvedAt = 0 /\ ~escal.healthy /\ run["final"].verdict # EvaluatorError)
        => /\ pc["final"] # "idle"
                => ENABLED (Final_primary_cycle \/ Final_conflict_cycle)
           /\ (pc["final"] = "idle" /\ calls["final"] > 0)
                => /\ run["final"].evals = 10
                   /\ Harmonized.status = "unresolved"
                   /\ Harmonized.verdict = "UNRESOLVED_RETURN_TO_RESONATOR"

\* C8: a resolution obtained through a successful Ollama query in a conflict
\* cycle (no cycle resolved locally) ends the call at once: status
\* resolved_ollama (the spec's resolved_escalated), the response as verdict,
\* the model attached, cycles = primary_cycles + conflict = the number of
\* evaluator calls made, 7 for conflict cycle 2.
C8_EscalatedShortCircuit ==
    escal.outcome = "success" =>
        /\ pc["final"] = "idle"
        /\ run["final"].resolvedAt = 0
        /\ run["final"].evals > Final_primary_cycles
        /\ Harmonized = [source |-> "Final_Core_Ollama",
                         verdict |-> escal.answer.response,
                         cycles |-> run["final"].evals,
                         status |-> "resolved_ollama",
                         ollama_model |-> escal.answer.model]

\* the escalation succeeded in conflict cycle 2
C8_Witness ==
    /\ escal.outcome = "success"
    /\ run["final"].evals = Final_primary_cycles + 2
    /\ Harmonized.cycles = 7

\* C9: Ollama is queried only in a conflict cycle whose local verdict is
\* unresolved and whose health check returned true; a cycle whose health
\* check failed went on to the local check without a query.
C9_QueryOnlyWhenWarranted ==
    /\ \A q \in query_log : q.phase = "conflict" /\ ~q.local_resolved /\ q.healthy
    /\ escal.outcome = "degraded" => (~escal.answer.success /\ escal.rechecked)

\* a query has been made, and a later cycle found the oracle degraded
C9_Witness == query_log # {} /\ escal.outcome = "degraded"

\* C10: after a failed escalation (success false, timeout or an exception)
\* harmonize has not failed, the local check of that cycle has run, and the
\* call is in the next conflict cycle, or has returned unresolved when that
\* was the last one.
C10_FailedEscalationFallsThrough ==
    escal.outcome \in {"http_error", "timeout", "client_error", "raised"} =>
        /\ "exception" \notin DOMAIN result["final"]
        /\ escal.rechecked
        /\ \/ /\ pc["final"] = "conflict"
              /\ run["final"].evals < 10
              /\ cycle["final"] = run["final"].evals - Final_primary_cycles + 1
           \/ /\ pc["final"] = "idle"
              /\ run["final"].evals = 10
              /\ Harmonized = Final_unresolved

\* a query timed out in conflict cycle 1 and the call went on to cycle 2
C10_Witness ==
    /\ escal.outcome = "timeout"
    /\ pc["final"] = "conflict"
    /\ cycle["final"] = 2

-----------------------------------------------------------------------------
(* Properties of the time oracle *)

\* the pulses oracle o has issued, in the order issued (the order in which
\* the calls held the lock)
PulsesOf(o) == SelectSeq(issued, LAMBDA p : p.o = o)

\* C13: the pulse() calls made on one oracle by concurrent threads yield
\* pairwise distinct cycle components, strictly increasing in the order the
\* calls took the lock, and no increment is lost: the n-th pulse of the oracle
\* has cycle n, and every pulse a call returned is one of them.
C13_PulsesDistinct ==
    /\ \A o \in Oracles :
        LET s == PulsesOf(o) IN
        /\ \A i, j \in 1..Len(s) : i < j => s[i].cycle < s[j].cycle
        /\ \A i \in 1..Len(s) : s[i].cycle = i
    /\ \A t \in Threads :
        (th[t].pc = "idle" /\ th[t].op = "pulse") =>
            \E i \in 1..Len(issued) :
                issued[i] = [o |-> th[t].o, cycle |-> th[t].ret.value.cycle,
                             by |-> t]

\* both threads have taken pulses of one oracle, and one is waiting for the
\* lock the other holds
C13_Witness ==
    \E o \in Oracles, t, u \in Threads :
        /\ t # u
        /\ \E i, j \in 1..Len(PulsesOf(o)) :
            PulsesOf(o)[i].by = t /\ PulsesOf(o)[j].by = u
        /\ th[t].pc = "acquire" /\ th[t].o = o
        /\ iss[o]._lock = u

\* C14: across all the pulses issued in the process, whichever oracle
\* instance issued them, the cycle component is strictly increasing and no
\* value is used twice.
C14_ProcessWide ==
    \A i, j \in 1..Len(issued) : i < j => issued[i].cycle < issued[j].cycle

\* C15: detect_drift returns true exactly when the time between this call
\* and the previous detect_drift call on the same oracle (its construction
\* for the first call) exceeds the threshold in absolute value, and every
\* call leaves the time of the call as the stored timestamp.
C15_DriftSinceLastCall ==
    /\ \A o \in Oracles : iss[o]._last_ts = called_at[o]
    /\ \A t \in Threads :
        th[t].op = "detect_drift" =>
            LET r == th[t].ret IN
            /\ r.value = (Abs(r.now - r.previous) > r.threshold_seconds)
            /\ iss[th[t].o]._last_ts = r.now

\* the second call reported no drift although the time had moved, backwards,
\* and the timestamp was replaced all the same
C15_Witness ==
    \E t \in Threads :
        /\ th[t].op = "detect_drift"
        /\ th[t].todo = 0
        /\ ~th[t].ret.value
        /\ th[t].ret.now < th[t].ret.previous
        /\ iss[th[t].o]._last_ts = th[t].ret.now

\* C37: detect_drift is not covered by the pulse lock: a caller never holds
\* the lock of its oracle, its read of the stored timestamp can be taken
\* whoever holds that lock, and what it returns compares its own time with
\* the timestamp it read, which another caller may have read as well.
C37_DriftOutsideLock ==
    \A t \in Threads :
        /\ th[t].pc \in {"drift_load", "drift_store"} => iss[th[t].o]._lock # t
        /\ th[t].pc = "drift_load" => ENABLED ISS_drift_load(t)
        /\ (th[t].op = "detect_drift" /\ th[t].pc = "idle") =>
            LET r == th[t].ret IN
            r.value = (Abs(r.now - r.previous) > r.threshold_seconds)

\* two calls on one oracle compared against the same stored timestamp, the
\* one of construction, and both reported drift; run one after the other, in
\* either order, the later call would have reported none
C37_Witness ==
    \E t, u \in Threads :
        /\ t # u
        /\ th[t].op = "detect_drift" /\ th[t].pc = "idle"
        /\ th[u].op = "detect_drift" /\ th[u].pc = "idle"
        /\ th[t].o = th[u].o
        /\ th[t].ret.previous = 0 /\ th[u].ret.previous = 0
        /\ th[t].ret.value /\ th[u].ret.value
        /\ ~(Abs(th[u].ret.now - th[t].ret.now) > th[u].ret.threshold_seconds)
        /\ ~(Abs(th[t].ret.now - th[u].ret.now) > th[t].ret.threshold_seconds)

\* the calls the threads have made, each having started with n to make
CallsMade(n) ==
    LET RECURSIVE Total(_)
        Total(S) == IF S = {} THEN 0
                    ELSE LET t == CHOOSE x \in S : TRUE
                         IN (n - th[t].todo) + Total(S \ {t})
    IN Total(Threads)

\* C21: reflect returns a record of original, confidence, pulse, stardate
\* (and the reflection note) whose original is the input as it was; the input
\* dict is not changed by any step of the call; and each call takes exactly
\* one pulse of the Thinker's oracle, the one in its record.
C21_ReflectWraps ==
    [][/\ items' = items
       /\ \A t \in Threads :
            (th[t].op = "reflect" /\ th[t].pc = "stamp" /\ th[t].pc' = "idle") =>
                LET r == th[t].ret'.value IN
                /\ DOMAIN r = ReflectionKeys
                /\ r.original = items[t]
                /\ r.confidence = 95
                /\ r.pulse = th[t].ret.value.cycle
       /\ (\A t \in Threads : th[t].pc' = "idle") =>
            /\ Len(issued') = CallsMade(MaxPulses)'
            /\ iss["Thinker"]._cycle' = Len(issued')]_vars

\* both threads have had their results reflected, by different pulses
C21_Witness ==
    \E t, u \in Threads :
        /\ t # u
        /\ th[t].pc = "idle" /\ th[u].pc = "idle"
        /\ th[t].ret.kind = "reflection" /\ th[u].ret.kind = "reflection"
        /\ th[t].ret.value.original = items[t]
        /\ th[u].ret.value.original = items[u]
        /\ items[t] # items[u]
        /\ th[t].ret.value.pulse # th[u].ret.value.pulse

\* C38: the confidence Reflector.reflect attaches does not depend on its
\* input: the reflections returned to any two callers carry the same
\* confidence, whatever the status, verdict or cycle count of their results.
C38_ConfidenceIsConstant ==
    \A t, u \in Threads :
        (th[t].ret.kind = "reflection" /\ th[u].ret.kind = "reflection") =>
            th[t].ret.value.confidence = th[u].ret.value.confidence

\* a resolved result and one that is not (escalated, or unresolved and
\* without a cycle count) have both been reflected
C38_Witness ==
    \E t, u \in Threads :
        /\ th[t].pc = "idle" /\ th[u].pc = "idle"
        /\ th[t].ret.kind = "reflection" /\ th[u].ret.kind = "reflection"
        /\ th[t].ret.value.original.status = "resolved"
        /\ th[u].ret.value.original.status \in {"resolved_ollama", "unresolved"}
        /\ th[t].ret.value.original.verdict # th[u].ret.value.original.verdict

-----------------------------------------------------------------------------
(* Properties of the task queue *)

\* queue() never appends, so the deque stays empty and no next() call gets
\* past the test of the queue
QueueStaysEmpty ==
    /\ queue = <<>>
    /\ taken = <<>>
    /\ \A t \in Threads : th[t].pc # "popleft"

\* how many times x occurs in the sequence s
Count(s, x) == Cardinality({i \in 1..Len(s) : s[i] = x})

\* thread t has returned from a call of op
Returned(t, op) == th[t].pc = "idle" /\ th[t].op = op

\* the last n calls thread t has returned from
LastCalls(t, n) ==
    IF Len(th[t].trace) < n THEN <<>>
    ELSE SubSeq(th[t].trace, Len(th[t].trace) - n + 1, Len(th[t].trace))

\* C16: queue(item) returns the pulse it has stamped on the item as
\* queued_at, and a next() that follows hands the item back, payload
\* unchanged, stamped with an executed_at of a greater cycle.
C16_EnqueueDequeue ==
    \A t \in Threads :
        /\ Returned(t, "queue") =>
            /\ th[t].ret.kind = "pulse"
            /\ "queued_at" \in DOMAIN items[t]
            /\ items[t].queued_at = th[t].ret.value
        /\ (/\ LastCalls(t, 2) = <<"queue", "next">>
            /\ \A u \in Threads \ {t} : Count(th[u].trace, "next") = 0)
            => /\ th[t].ret.kind = "item"
               /\ DOMAIN th[t].ret.value =
                      {"data", "queued_at", "executed_at"}
               /\ th[t].ret.value.data = task_item(t).data
               /\ th[t].ret.value.queued_at.cycle
                      < th[t].ret.value.executed_at.cycle

\* C17: the queue is first in, first out: the items next() has returned,
\* followed by the items still queued, are the items queue() was called with,
\* in call order (while no next() is between its popleft and its return).
C17_Fifo ==
    (\A t \in Threads : th[t].op = "next" => th[t].pc = "idle")
        => taken \o queue = offered

\* C18: next() on an empty queue returns {} in the step of the call, without
\* waiting and without an exception, and leaves the queue, the items and the
\* pulse counter as they were: no pulse is taken.
C18_EmptyDequeue ==
    [][\A t \in Threads :
        (/\ th[t].pc = "idle"
         /\ th[t].todo # th[t].todo'
         /\ th[t].op' = "next"
         /\ queue = <<>>)
        => /\ th[t].pc' = "idle"
           /\ th[t].ret'.kind = "item"
           /\ DOMAIN th[t].ret'.value = {}
           /\ queue' = queue
           /\ iss' = iss
           /\ issued' = issued
           /\ items' = items]_vars

\* next() has returned {} from an empty queue whose oracle has issued pulses
C18_Witness ==
    \E t \in Threads :
        /\ Returned(t, "next")
        /\ th[t].ret.kind = "item"
        /\ DOMAIN th[t].ret.value = {}
        /\ iss["TaskOrchestrator"]._cycle > 0

\* the items a next() call has popped and not yet returned
InFlight == {t \in Threads : th[t].op = "next" /\ th[t].pc \notin {"idle", "popleft"}}

\* C19: under any interleaving of queue() and next() calls of several
\* threads, every item queue() was called with is still queued or has been
\* handed out by exactly one next() (none lost, none handed out twice), and
\* no next() raises.
C19_MultiProducerConsumer ==
    /\ \A i \in Threads :
        Count(offered, i) =
            Count(taken, i) + Count(queue, i)
                + Cardinality({t \in InFlight : th[t].item = i})
    /\ \A t \in Threads : th[t].op = "next" => th[t].ret.kind # "raise"

\* C20: mark_done(item) returns a fresh pulse, stamped on the item as
\* completed_at, and an item taken through queue, next and mark_done carries
\* queued_at < executed_at < completed_at in their cycle components.
C20_CompletionOrder ==
    \A t \in Threads :
        /\ Returned(t, "mark_done") =>
            /\ th[t].ret.kind = "pulse"
            /\ items[t].completed_at = th[t].ret.value
            /\ \E i \in 1..Len(issued) :
                /\ issued[i] = [o |-> "TaskOrchestrator",
                                cycle |-> th[t].ret.value.cycle, by |-> t]
                /\ \A j \in 1..Len(issued) :
                    j < i => issued[j].cycle < issued[i].cycle
        /\ LastCalls(t, 3) = <<"queue", "next", "mark_done">> =>
            /\ {"queued_at", "executed_at", "completed_at"} \subseteq DOMAIN items[t]
            /\ items[t].queued_at.cycle < items[t].executed_at.cycle
            /\ items[t].executed_at.cycle < items[t].completed_at.cycle

\* C36: with health_check() False for the whole call, the final harmonizer
\* runs the cycle engine of a hemisphere harmonizer.  Whenever the left
\* harmonizer has taken a step from a common state, the final harmonizer can
\* take its step on the same draw and evaluator answer and arrives at the
\* same history, evaluator calls and loop position; and when attempt k is the
\* first to resolve, its harmonization result has status resolved, that
\* verdict and cycles = k, after exactly k evaluator calls.
C36_FinalRunsSameEngine ==
    /\ ~InSyncFinal => ENABLED Final_follow
    /\ (run["final"].resolvedAt > 0 /\ ~escal.healthy) =>
           /\ pc["final"] = "idle"
           /\ run["final"].evals = run["final"].resolvedAt
           /\ result["final"].original.status = "resolved"
           /\ result["final"].original.verdict = run["final"].verdict
           /\ result["final"].original.cycles = run["final"].resolvedAt

\* both have returned the result of a call resolved in conflict cycle 3, the
\* final harmonizer having found the oracle unhealthy in cycles 1 to 3
C36_Witness ==
    /\ InSyncFinal
    /\ ~escal.healthy
    /\ run["final"].resolvedAt = Final_primary_cycles + 3
    /\ result["final"].original.cycles = result["left"].cycles
    /\ result["final"].original.verdict = result["left"].verdict

-----------------------------------------------------------------------------
(* Properties of the synaptic resonator *)

\* the resonator's last resonate call returned
Resonated(h) == "synaptic_verdict" \in DOMAIN resonated[h]

\* the largest perturbation a unit can apply under the seeds, in quanta:
\* |bias| + mod for intuition, 2 * mod for induction, mod for deduction
maxPerturbation ==
    LET i == Abs(seeds["intuition"].bias) + seeds["intuition"].mod
        u == 2 * seeds["induction"].mod
        d == seeds["deduction"].mod
    IN IF i >= u /\ i >= d THEN i ELSE IF u >= d THEN u ELSE d

\* the roundings on the way from the stimulus to the verdict: three in fire,
\* one per value of a slice, three in a mid-tier node, two in the final node
Roundings == PerMode + 8

ExactMultiples(s) ==
    \A k \in 1..(IF PerMode > 3 THEN PerMode ELSE 3) : float(k * s, 1) = k * s

\* C23 as stated: without perturbation every node outputs the stimulus, and
\* the verdict is the stimulus exactly.
C23_UnperturbedExact ==
    (Resonated("left") /\ seeds = Unperturbed) =>
        \A n \in 1..6 :
            resonated["left"].pyramid_trace.node_outputs[n]
                = resonated["left"].pyramid_trace.input_value

\* C23: without perturbation every node outputs the stimulus exactly, and so
\* the verdict is the stimulus (0.5 for 0.5), when the multiples of the
\* stimulus that the sums pass through are floats.
C23_UnperturbedExactSums ==
    (/\ Resonated("left")
     /\ seeds = Unperturbed
     /\ ExactMultiples(resonated["left"].pyramid_trace.input_value)) =>
        /\ \A n \in 1..6 :
              resonated["left"].pyramid_trace.node_outputs[n]
                  = resonated["left"].pyramid_trace.input_value
        /\ resonated["left"].synaptic_verdict
              = resonated["left"].pyramid_trace.input_value

\* an unperturbed resonator has returned 0.5 for the stimulus 0.5
C23_Witness ==
    /\ Resonated("left")
    /\ seeds = Unperturbed
    /\ resonated["left"].pyramid_trace.input_value = Half
    /\ resonated["left"].synaptic_verdict = Half
    /\ \A k \in Units : fired["left"][k] = Half

\* the three top nodes take the three equal positional slices of the fired
\* values, the final node the two mid nodes, and the verdict is the final
\* node's output
TopAndFinal(h) ==
    LET out == resonated[h].pyramid_trace.node_outputs IN
    /\ Len(fired[h]) = 3 * PerMode
    /\ out[6] = aggregate(SubSeq(fired[h], 1, PerMode))
    /\ out[5] = aggregate(SubSeq(fired[h], PerMode + 1, 2 * PerMode))
    /\ out[4] = aggregate(SubSeq(fired[h], 2 * PerMode + 1, 3 * PerMode))
    /\ out[1] = aggregate(<<out[2], out[3]>>)
    /\ resonated[h].synaptic_verdict = out[1]

\* C24 as stated: three equal positional slices feed the top nodes, each mid
\* node is the mean of a pair of top-node outputs, the final node is the
\* mean of the two mid nodes, and the verdict is the final node's output.
C24_PairwiseMeans ==
    Resonated("left") =>
        LET out == resonated["left"].pyramid_trace.node_outputs IN
        /\ TopAndFinal("left")
        /\ \E a, b \in 4..6 : a # b /\ out[3] = aggregate(<<out[a], out[b]>>)
        /\ \E a, b \in 4..6 : a # b /\ out[2] = aggregate(<<out[a], out[b]>>)

\* C24: three equal positional slices feed the top nodes, each of the two mid
\* nodes is the mean of all three top-node outputs, the final node is the
\* mean of the two mid nodes, and the verdict is the final node's output.
C24_MidNodesTakeAllThree ==
    Resonated("left") =>
        LET out == resonated["left"].pyramid_trace.node_outputs IN
        /\ TopAndFinal("left")
        /\ out[3] = aggregate(<<out[4], out[5], out[6]>>)
        /\ out[2] = aggregate(<<out[4], out[5], out[6]>>)

\* the top nodes have put out three different values, and the mid nodes a
\* value that is the mean of no pair of them
C24_Witness ==
    /\ Resonated("left")
    /\ LET out == resonated["left"].pyramid_trace.node_outputs IN
       /\ out[4] # out[5] /\ out[5] # out[6] /\ out[4] # out[6]
       /\ \A a, b \in 4..6 : out[3] # aggregate(<<out[a], out[b]>>)
       /\ out[2] = out[3]

\* the values the units fired in the last call, in the order the units were
\* built: what the unshuffled bank gives when every unit fires the same value
Unshuffled(h) ==
    [u \in Units |-> fired[h][CHOOSE k \in Units : synapses[h][k] = u]]

\* the sum of a list without rounding
RECURSIVE Total(_)
Total(values) ==
    IF values = <<>> THEN 0
    ELSE Total(SubSeq(values, 1, Len(values) - 1)) + values[Len(values)]

\* the roundings of the pyramid: one per value of a slice, three in a mid-tier
\* node, two in the final node
PyramidRoundings == PerMode + 5

\* v is the mean of the values up to the rounding of the pyramid
NearMean(v, values) ==
    /\ Total(values) * (2^Precision - PyramidRoundings)
          <= v * Len(values) * 2^Precision
    /\ v * Len(values) * (2^Precision - PyramidRoundings)
          <= Total(values) * 2^Precision

AnnotationFailures == ResonateOutcomes \ {"http_200"}

\* the audit records a resonator has written
RecordsOf(h) ==
    SelectSeq(reflections, LAMBDA w : w.data.hemisphere = h)

\* C26: when the annotation fails (health check false, query reporting
\* failure, timeout, exception) resonate does not fail on that account: it
\* returns the verdict and the trace of the fired values, without annotation,
\* and its audit record is written; only the vault's own failure stops it.
C26_AnnotationFailureHarmless ==
    \A h \in {"left", "right"} :
        ollama[h] \in AnnotationFailures =>
            IF Resonated(h)
            THEN /\ resonated[h].synaptic_verdict = _fan_pass(fired[h])[1]
                 /\ resonated[h].pyramid_trace.node_outputs = _fan_pass(fired[h])
                 /\ resonated[h].ollama_reasoning = None
                 /\ resonated[h].pyramid_trace.ollama_enhancement = None
                 /\ RecordsOf(h) # <<>>
                 /\ RecordsOf(h)[Len(RecordsOf(h))].data = resonated[h].pyramid_trace
            ELSE resonated[h].exception = "FileNotFoundError"

\* a call whose annotation raised has returned the verdict without
\* annotation, after a call that was annotated
C26_Witness ==
    /\ ollama["left"] = "loop_running"
    /\ Resonated("left")
    /\ resonated["left"].synaptic_verdict = Half
    /\ resonated["left"].ollama_reasoning = None
    /\ Len(RecordsOf("left")) = 2
    /\ RecordsOf("left")[1].data.ollama_enhancement # None

\* C27: a resonate call that returns writes exactly one audit record, under
\* the id {hemisphere}_syn_res_{counter:06d} with the counter's value before
\* the call, and adds one to the counter; a call that fails writes none. The
\* counter is the number of records written, so it starts at 0, and no id is
\* written twice, whether by one resonator or by the left and the right one.
C27_AuditIds ==
    [][\A h \in {"left", "right"} :
        /\ ref_count[h] = Len(RecordsOf(h))
        /\ Len(stimuli'[h]) < Len(stimuli[h]) =>
            IF "synaptic_verdict" \in DOMAIN resonated'[h]
            THEN /\ Len(reflections') = Len(reflections) + 1
                 /\ SubSeq(reflections', 1, Len(reflections)) = reflections
                 /\ reflections'[Len(reflections')].rid
                        = h \o "_syn_res_" \o format_06d(ref_count[h])
                 /\ Len(reflections'[Len(reflections')].rid) = Len(h) + 15
                 /\ reflections'[Len(reflections')].data
                        = resonated'[h].pyramid_trace
                 /\ ref_count'[h] = ref_count[h] + 1
                 /\ \A i \in 1..Len(reflections) :
                        reflections[i].rid # reflections'[Len(reflections')].rid
            ELSE /\ reflections' = reflections
                 /\ ref_count' = ref_count]_vars

\* the left resonator has written its first two records and the right one
\* its first
C27_Witness ==
    /\ \E i, j, k \in 1..Len(reflections) :
        /\ reflections[i].rid = "left_syn_res_000000"
        /\ reflections[j].rid = "left_syn_res_000001"
        /\ reflections[k].rid = "right_syn_res_000000"
    /\ ref_count["left"] = 2
    /\ ref_count["right"] = 1

-----------------------------------------------------------------------------
(* Properties of the consent gate and of the gateway *)

\* the intent holds one of `terms` as a whitespace-delimited word
HasWord(intent, terms) ==
    \E v \in terms :
        \E k \in DOMAIN split(strip(lower(intent))) :
            split(strip(lower(intent)))[k] = v

\* the intent holds one of `terms` somewhere in its text
HasTerm(intent, terms) == \E term \in terms : str_in(term, strip(lower(intent)))

\* the context's source is SYSTEM
FromSystem(context) == context = [source |-> "SYSTEM"]

C39_HarmfulAlwaysDenied ==
    HasWord(request.intent, harmful_verbs) =>
        /\ \A k \in DOMAIN answers : answers[k] = FALSE
        /\ Len(consent.escalations) = Len(answers)
        /\ \A k \in DOMAIN consent.escalations :
            consent.escalations[k].reason = <<"Harmful intent: ", request.intent>>

\* C31: for a message the consent gate authorizes, think returns a response
\* whose final verdict is the verdict of the final harmonizer's result, whose
\* reasoning chain holds the left result, the right result and the
\* harmonization, and whose confidence is the one the reflection gave it.
C31_ThinkReturnsHarmonized ==
    (port.served > 0 /\ authorize(request.intent, request.context).ret) =>
        /\ "final_verdict" \in DOMAIN port.response
        /\ port.response.final_verdict = result["final"].original.verdict
        /\ port.response.reasoning_chain =
               [left_hemisphere |-> resonated["left"],
                right_hemisphere |-> resonated["right"],
                harmonization |-> result["final"]]
        /\ port.response.confidence = result["final"].confidence

\* C40: for a message the consent gate denies, think returns the verdict
\* DENIED with confidence 0 and nothing downstream has happened: no resonator
\* has fired, the final harmonizer has not been called, no combo has been
\* drawn and nothing has been put on the task queue.
C40_DeniedWithoutEffect ==
    (port.served > 0 /\ ~authorize(request.intent, request.context).ret) =>
        /\ "final_verdict" \in DOMAIN port.response
        /\ port.response.final_verdict = "DENIED"
        /\ port.response.confidence = 0
        /\ \A h \in {"left", "right"} : fired[h] = <<>> /\ ref_count[h] = 0
        /\ calls["final"] = 0
        /\ evaluated["final"] = EmptyBag
        /\ offered = <<>> /\ queue = <<>>

====
